---- MODULE Spec2Model ----
(***************************************************************************)
(* Model of the date_ai recommendation engine (src/src/date_ai):           *)
(* DateOutingAI.__init__ and DateOutingAI.recommend with their helpers      *)
(* _normalize, _canonical_city and _budget_affinity, over the catalog types *)
(* of data.py.                                                              *)
(*                                                                          *)
(* Conventions                                                              *)
(*  - A Python str that is trimmed, lower-cased or searched is a sequence   *)
(*    of one-character strings; a character outside ASCII is written by its *)
(*    code point ("U6771" is the first character of the city name Tokyo in  *)
(*    local script).  A str that is only compared for equality is a string. *)
(*  - An optional value (X | None) is a record: None, or Some(v).           *)
(*  - A Python float is the pair <<t, e>> that stands for the binary64      *)
(*    value (t * 2^56 + e) / 10 * 2^-56: t counts tenths and e is the       *)
(*    distance, in tenths of 2^-56, of the binary64 value from t/10.        *)
(*    FAdd and FMulInt round to nearest, ties to even, as binary64 does.    *)
(***************************************************************************)
EXTENDS Integers, Sequences, FiniteSets, TLC

(***************************************************************************)
(* Optional values                                                          *)
(***************************************************************************)
None == [isNone |-> TRUE]

Some(v) == [isNone |-> FALSE, val |-> v]

IsNone(o) == o.isNone

Min2(a, b) == IF a <= b THEN a ELSE b

Max2(a, b) == IF a >= b THEN a ELSE b

Abs(n) == IF n < 0 THEN -n ELSE n

(***************************************************************************)
(* binary64 arithmetic on the values the engine computes                    *)
(***************************************************************************)
RECURSIVE Pow2Mod(_, _)
\* 2^n modulo m
Pow2Mod(n, m) == IF n = 0 THEN 1 % m ELSE (2 * Pow2Mod(n - 1, m)) % m

\* the float literals of recommender.py
F0 == <<0, 0>>

F01 == <<1, 4>>

F03 == <<3, -8>>

F05 == <<5, 0>>

\* F06 with the weight of an exact match typed in its place
F06AsExact == <<10, 0>>

F06 == <<6, -16>>

F10 == <<10, 0>>

\* line 81 with the city weighing as little as the activity type
F20AsActivityWeight == <<5, 0>>

F20 == <<20, 0>>

FNeg02 == <<-2, -8>>

\* -0.4 with the penalty of a cheaper plan typed in its place
FNeg04AsCheaper == <<-2, -8>>

FNeg04 == <<-4, -16>>

FNeg(x) == <<-x[1], -x[2]>>

\* x < y, x <= y, x > 0 on binary64 values
FLess(x, y) == x[1] < y[1] \/ (x[1] = y[1] /\ x[2] < y[2])

FLeq(x, y) == x = y \/ FLess(x, y)

FPositive(x) == FLess(F0, x)

\* 2^56 modulo 20 * g, for each spacing g
Pow56Mod == [g \in {1, 2, 4, 8, 16, 32, 64, 128} |-> Pow2Mod(56, 20 * g)]

\* spacing of binary64 values around the positive value <<t, e>>, in units
\* of 2^-56: 1 in [2^-4, 2^-3), doubling with every binade
Ulp(t, e) ==
    IF t <= 1 THEN 1
    ELSE IF t = 2 THEN 2
    ELSE IF t < 5 \/ (t = 5 /\ e < 0) THEN 4
    ELSE IF t < 10 \/ (t = 10 /\ e < 0) THEN 8
    ELSE IF t < 20 \/ (t = 20 /\ e < 0) THEN 16
    ELSE IF t < 40 \/ (t = 40 /\ e < 0) THEN 32
    ELSE IF t < 80 \/ (t = 80 /\ e < 0) THEN 64
    ELSE 128

\* the positive real (t * 2^56 + e) / 10 * 2^-56 rounded to binary64
RoundPos(t, e) ==
    LET g == Ulp(t, e)
        \* k mod 2g, where k = (t * 2^56 + e) / 10 is the value in units
        k2 == (((t * Pow56Mod[g]) + e) % (20 * g)) \div 10
        r == k2 % g
        odd == k2 >= g
        up == (2 * r > g) \/ (2 * r = g /\ odd)
    IN  IF r = 0 THEN <<t, e>>
        ELSE IF up THEN <<t, e + 10 * (g - r)>>
        ELSE <<t, e - 10 * r>>

FRound(x) ==
    IF x = F0 THEN F0
    ELSE IF FPositive(x) THEN RoundPos(x[1], x[2])
    ELSE FNeg(RoundPos(-x[1], -x[2]))

\* x + y in binary64
FAdd(x, y) == FRound(<<x[1] + y[1], x[2] + y[2]>>)

\* n * x in binary64, n an int
FMulInt(n, x) == FRound(<<n * x[1], n * x[2]>>)

\* min(x, y) of Python on floats
FMin(x, y) == IF FLess(y, x) THEN y ELSE x

(***************************************************************************)
(* str.strip, str.lower and the substring test                              *)
(***************************************************************************)
\* characters str.strip removes: the space and the ideographic space U+3000
Whitespace == {" ", "U3000"}

UpperLetters ==
    <<"A", "B", "C", "D", "E", "F", "G", "H", "I", "J", "K", "L", "M",
      "N", "O", "P", "Q", "R", "S", "T", "U", "V", "W", "X", "Y", "Z">>

LowerLetters ==
    <<"a", "b", "c", "d", "e", "f", "g", "h", "i", "j", "k", "l", "m",
      "n", "o", "p", "q", "r", "s", "t", "u", "v", "w", "x", "y", "z">>

\* the lower-case letter of each upper-case letter
LowerOf ==
    [u \in {UpperLetters[i] : i \in 1..Len(UpperLetters)} |->
        LowerLetters[CHOOSE i \in 1..Len(UpperLetters) : UpperLetters[i] = u]]

LowerChar(ch) == IF ch \in DOMAIN LowerOf THEN LowerOf[ch] ELSE ch

\* str.lower()
Lower(s) == [i \in 1..Len(s) |-> LowerChar(s[i])]

RECURSIVE LStrip(_)
LStrip(s) ==
    IF s # <<>> /\ Head(s) \in Whitespace THEN LStrip(Tail(s)) ELSE s

RECURSIVE RStrip(_)
RStrip(s) ==
    IF s # <<>> /\ s[Len(s)] \in Whitespace
    THEN RStrip(SubSeq(s, 1, Len(s) - 1))
    ELSE s

\* str.strip()
Strip(s) == RStrip(LStrip(s))

\* needle in hay, on str
Contains(needle, hay) ==
    \E i \in 0..(Len(hay) - Len(needle)) :
        SubSeq(hay, i + 1, i + Len(needle)) = needle

(***************************************************************************)
(* recommender.py: module constants                                         *)
(***************************************************************************)
CITY_ALIASES ==
    <<<<<<"t", "o", "k", "y", "o">>, <<"U6771", "U4EAC">>>>,
      <<<<"k", "y", "o", "t", "o">>, <<"U4EAC", "U90FD">>>>,
      <<<<"o", "s", "a", "k", "a">>, <<"U5927", "U962A">>>>,
      <<<<"s", "a", "p", "p", "o", "r", "o">>, <<"U672D", "U5E4C">>>>,
      <<<<"f", "u", "k", "u", "o", "k", "a">>, <<"U798F", "U5CA1">>>>,
      <<<<"y", "o", "k", "o", "h", "a", "m", "a">>, <<"U6A2A", "U6D5C">>>>,
      <<<<"n", "a", "g", "o", "y", "a">>, <<"U540D", "U53E4", "U5C4B">>>>,
      <<<<"n", "a", "h", "a">>, <<"U90A3", "U8987">>>>,
      <<<<"k", "o", "b", "e">>, <<"U795E", "U6238">>>>,
      <<<<"s", "e", "n", "d", "a", "i">>, <<"U4ED9", "U53F0">>>>,
      <<<<"h", "i", "r", "o", "s", "h", "i", "m", "a">>, <<"U5E83", "U5CF6">>>>,
      <<<<"k", "a", "n", "a", "z", "a", "w", "a">>, <<"U91D1", "U6CA2">>>>>>

\* CITY_ALIASES.get(key, default)
AliasGet(key, default) ==
    IF \E i \in 1..Len(CITY_ALIASES) : CITY_ALIASES[i][1] = key
    THEN CITY_ALIASES[CHOOSE i \in 1..Len(CITY_ALIASES) : CITY_ALIASES[i][1] = key][2]
    ELSE default

\* data.py: the codes of BUDGET_BANDS in order ("Y" stands for the yen sign,
\* "-light", "-plus" and "-premium" for the katakana suffixes)
BUDGET_LEVELS == <<"Y-light", "Y", "YY", "YY-plus", "YYY", "YYYY", "Y-premium">>

\* _BUDGET_INDEX.get(code, 0): an unknown code taken for the first band
BudgetIndexGetOrFirst(code) ==
    IF \E i \in 1..Len(BUDGET_LEVELS) : BUDGET_LEVELS[i] = code
    THEN Some((CHOOSE i \in 1..Len(BUDGET_LEVELS) : BUDGET_LEVELS[i] = code) - 1)
    ELSE Some(0)

\* _BUDGET_INDEX.get(code): the 0-based position, None for an unknown code
BudgetIndexGet(code) ==
    IF \E i \in 1..Len(BUDGET_LEVELS) : BUDGET_LEVELS[i] = code
    THEN Some((CHOOSE i \in 1..Len(BUDGET_LEVELS) : BUDGET_LEVELS[i] = code) - 1)
    ELSE None

(***************************************************************************)
(* recommender.py: _normalize, _canonical_city, _budget_affinity            *)
(***************************************************************************)
\* _normalize(value: str | None) -> str
Normalize(value) ==
    IF IsNone(value) THEN <<>> ELSE Lower(Strip(value.val))

\* _canonical_city looking the trimmed value up without lower-casing it
CanonicalCityCaseSensitive(value) ==
    IF IsNone(value) THEN <<>>
    ELSE LET trimmed == Strip(value.val)
         IN  IF trimmed = <<>> THEN <<>>
             ELSE AliasGet(trimmed, trimmed)

\* _canonical_city(value: str | None) -> str
CanonicalCity(value) ==
    IF IsNone(value) THEN <<>>
    ELSE LET trimmed == Strip(value.val)
         IN  IF trimmed = <<>> THEN <<>>
             ELSE AliasGet(Lower(trimmed), trimmed)

\* one rationale string: the signal that wrote it, the words it interpolates
\* and the numbers it interpolates
Line(kind, text, nums) == [kind |-> kind, text |-> text, nums |-> nums]

\* _budget_affinity(requested, candidate) -> (float, str | None)
BudgetAffinity(requested, candidate) ==
    IF requested = "" THEN [score |-> F0, reason |-> None]
    ELSE IF requested = candidate
    THEN [score |-> F10,
          reason |-> Some(Line("budget", <<"exact", candidate>>, <<>>))]
    ELSE LET requested_index == BudgetIndexGet(requested)
             candidate_index == BudgetIndexGet(candidate)
         IN  IF IsNone(requested_index) \/ IsNone(candidate_index)
             THEN [score |-> F0, reason |-> None]
             ELSE LET gap == Abs(requested_index.val - candidate_index.val)
                      pricier == candidate_index.val > requested_index.val
                  IN  IF gap = 1
                      THEN [score |-> F06,
                            reason |-> Some(Line("budget",
                                <<"near", requested, candidate,
                                  IF pricier THEN "a little pricier"
                                  ELSE "a little cheaper">>, <<>>))]
                      ELSE [score |-> IF pricier THEN FNeg04 ELSE FNeg02,
                            reason |-> Some(Line("budget",
                                <<"mismatch", requested,
                                  IF pricier THEN "far pricier"
                                  ELSE "far cheaper">>, <<>>))]

(***************************************************************************)
(* data.py: Experience, and the catalog                                     *)
(***************************************************************************)
\* the fields of Experience that the engine reads, and the title
Experience(city, title, activity_type, budget, weather, mood, duration_hours, highlights) ==
    [city |-> city, title |-> title, activity_type |-> activity_type,
     budget |-> budget, weather |-> weather, mood |-> mood,
     duration_hours |-> duration_hours, highlights |-> highlights]

Tokyo == <<"U6771", "U4EAC">>

Kyoto == <<"U4EAC", "U90FD">>

\* EXPERIENCES, the catalog built at import: its first three records (the
\* other 142 have the same shape: a city in local script, a band code of
\* BUDGET_LEVELS, three highlights)
EXPERIENCES ==
    <<Experience(Tokyo, "sumida night picnic", "outdoor", "YY", "clear",
                 "romantic", 3, <<"h1", "h2", "h3">>),
      Experience(Tokyo, "kichijoji morning walk", "outdoor", "Y-light",
                 "clear", "relax", 3, <<"h1", "h2", "h3">>),
      Experience(Tokyo, "omotesando galleries", "indoor", "YY", "rain",
                 "intellectual", 4, <<"h1", "h2", "h3">>)>>

\* ExperienceDetail (data.py lines 86-98), by its first field
ExperienceDetail(neighborhood) == [neighborhood |-> neighborhood]

\* a record of RAW_EXPERIENCES: the fields above and the optional detail
RawExperience(exp, detail) == exp @@ [detail |-> detail]

\* RAW_EXPERIENCES (data.py line 121): the first three records, none with a
\* detail of its own
RAW_EXPERIENCES == [i \in 1..Len(EXPERIENCES) |-> RawExperience(EXPERIENCES[i], None)]

\* EXPERIENCE_DETAILS (data.py line 2578), title -> detail: of the first
\* three titles the first two have an entry
EXPERIENCE_DETAILS ==
    [title \in {"sumida night picnic", "kichijoji morning walk"} |->
        ExperienceDetail(title)]

\* EXPERIENCE_DETAILS.get(title)
DetailsGet(details, title) ==
    IF title \in DOMAIN details THEN Some(details[title]) ELSE None

\* _with_detail with the detail of the raw record kept where the mapping has
\* no entry
WithDetailKeepsOwn(details, exp) ==
    IF exp.title \in DOMAIN details
    THEN [exp EXCEPT !.detail = DetailsGet(details, exp.title)]
    ELSE exp

\* _with_detail (data.py lines 2804-2810)
WithDetail(details, exp) ==
    LET detail == DetailsGet(details, exp.title)
    IN  IF ~IsNone(detail) /\ exp.detail # detail THEN [exp EXCEPT !.detail = detail]
        ELSE IF IsNone(detail) /\ ~IsNone(exp.detail) THEN [exp EXCEPT !.detail = None]
        ELSE exp

\* data.py line 2813: tuple(_with_detail(exp) for exp in RAW_EXPERIENCES)
BuiltCatalog(raw, details) == [i \in 1..Len(raw) |-> WithDetail(details, raw[i])]

\* the names of the data module: RAW_EXPERIENCES and EXPERIENCE_DETAILS, and
\* EXPERIENCES once line 2813 has run
DataModule(imported, raw, details, catalog) ==
    [imported |-> imported, RAW_EXPERIENCES |-> raw,
     EXPERIENCE_DETAILS |-> details, EXPERIENCES |-> catalog]

\* the module after its import
ImportedData ==
    DataModule(TRUE, RAW_EXPERIENCES, EXPERIENCE_DETAILS,
               BuiltCatalog(RAW_EXPERIENCES, EXPERIENCE_DETAILS))

(***************************************************************************)
(* recommender.py: RecommendationRequest, Recommendation                    *)
(***************************************************************************)
RecommendationRequest(city, budget, weather, mood, activity_type, max_duration_hours, limit) ==
    [city |-> city, budget |-> budget, weather |-> weather, mood |-> mood,
     activity_type |-> activity_type,
     max_duration_hours |-> max_duration_hours, limit |-> limit]

\* experience is a reference to a catalog entry: its position in the
\* engine's list
Recommendation(experience, score, rationale) ==
    [experience |-> experience, score |-> score, rationale |-> rationale]

\* truth value of an optional str: neither None nor ""
Truthy(o) == ~IsNone(o) /\ o.val # ""

(***************************************************************************)
(* DateOutingAI.recommend, one loop iteration at a time                     *)
(***************************************************************************)
\* line 74 with the containment test inverted
PassesCityFilterInverted(city_normalized, exp) ==
    ~(city_normalized # <<>> /\ Contains(city_normalized, Normalize(Some(exp.city))))

\* line 74: the experience survives the city filter
PassesCityFilter(city_normalized, exp) ==
    ~(city_normalized # <<>> /\ ~Contains(city_normalized, Normalize(Some(exp.city))))

\* lines 80-82 without the test for a requested city
CitySignalUnconditional(city_normalized, exp, acc) ==
    [score |-> FAdd(acc.score, F20),
     rationale |-> Append(acc.rationale, Line("city", exp.city, <<>>))]

\* lines 80-82: the city signal
CitySignal(city_normalized, exp, acc) ==
    IF city_normalized # <<>>
    THEN [score |-> FAdd(acc.score, F20),
          rationale |-> Append(acc.rationale, Line("city", exp.city, <<>>))]
    ELSE acc

\* lines 84-88: the budget signal
BudgetSignal(request, exp, acc) ==
    IF Truthy(request.budget)
    THEN LET affinity == BudgetAffinity(request.budget.val, exp.budget)
         IN  [score |-> FAdd(acc.score, affinity.score),
              rationale |-> IF IsNone(affinity.reason) THEN acc.rationale
                            ELSE Append(acc.rationale, affinity.reason.val)]
    ELSE acc

\* lines 90-92 with the line put in front of the rationale
WeatherSignalLineFirst(request, exp, acc) ==
    IF Truthy(request.weather) /\ request.weather.val = exp.weather
    THEN [score |-> FAdd(acc.score, F10),
          rationale |-> <<Line("weather", <<exp.weather>>, <<>>)>> \o acc.rationale]
    ELSE acc

\* lines 90-92: the weather signal
WeatherSignal(request, exp, acc) ==
    IF Truthy(request.weather) /\ request.weather.val = exp.weather
    THEN [score |-> FAdd(acc.score, F10),
          rationale |-> Append(acc.rationale, Line("weather", <<exp.weather>>, <<>>))]
    ELSE acc

\* lines 94-96 with the mood counted only where the weather matched too
MoodSignalGivenWeather(request, exp, acc) ==
    IF /\ Truthy(request.mood) /\ request.mood.val = exp.mood
       /\ Truthy(request.weather) /\ request.weather.val = exp.weather
    THEN [score |-> FAdd(acc.score, F10),
          rationale |-> Append(acc.rationale, Line("mood", <<exp.mood>>, <<>>))]
    ELSE acc

\* lines 94-96: the mood signal
MoodSignal(request, exp, acc) ==
    IF Truthy(request.mood) /\ request.mood.val = exp.mood
    THEN [score |-> FAdd(acc.score, F10),
          rationale |-> Append(acc.rationale, Line("mood", <<exp.mood>>, <<>>))]
    ELSE acc

\* lines 98-100: the activity type signal
ActivitySignal(request, exp, acc) ==
    IF Truthy(request.activity_type) /\ request.activity_type.val = exp.activity_type
    THEN [score |-> FAdd(acc.score, F05),
          rationale |-> Append(acc.rationale,
                               Line("activity", <<exp.activity_type>>, <<>>))]
    ELSE acc

\* lines 102-112 with the ceiling tested for truth: 0 counts as no ceiling
DurationSignalCeilingTruthy(request, exp, acc) ==
    IF IsNone(request.max_duration_hours) \/ request.max_duration_hours.val = 0
    THEN acc
    ELSE IF exp.duration_hours <= request.max_duration_hours.val
    THEN [score |-> FAdd(acc.score, F05),
          rationale |-> Append(acc.rationale, Line("duration", <<"fits">>, <<>>))]
    ELSE [score |-> FAdd(acc.score, FNeg(F05)),
          rationale |-> Append(acc.rationale,
                               Line("duration", <<"exceeds">>,
                                    <<exp.duration_hours,
                                      request.max_duration_hours.val>>))]

\* lines 102-112: the duration signal
DurationSignal(request, exp, acc) ==
    IF ~IsNone(request.max_duration_hours)
       /\ exp.duration_hours <= request.max_duration_hours.val
    THEN [score |-> FAdd(acc.score, F05),
          rationale |-> Append(acc.rationale, Line("duration", <<"fits">>, <<>>))]
    ELSE IF ~IsNone(request.max_duration_hours)
    THEN [score |-> FAdd(acc.score, FNeg(F05)),
          rationale |-> Append(acc.rationale,
                               Line("duration", <<"exceeds">>,
                                    <<exp.duration_hours,
                                      request.max_duration_hours.val>>))]
    ELSE acc

\* line 115 with the count capped before the product: min(len, 3) * 0.1
HighlightBoostCountCapped(exp) == FMulInt(Min2(Len(exp.highlights), 3), F01)

\* line 115 without the cap
HighlightBoostUncapped(exp) == FMulInt(Len(exp.highlights), F01)

\* line 115: min(len(exp.highlights) * 0.1, 0.3)
HighlightBoost(exp) == FMin(FMulInt(Len(exp.highlights), F01), F03)

\* lines 77-115: score and rationale of an experience that passed the filter
Evaluate(request, city_normalized, exp) ==
    LET a0 == [score |-> F0, rationale |-> <<>>]
        a1 == CitySignal(city_normalized, exp, a0)
        a2 == BudgetSignal(request, exp, a1)
        a3 == WeatherSignal(request, exp, a2)
        a4 == MoodSignal(request, exp, a3)
        a5 == ActivitySignal(request, exp, a4)
        a6 == DurationSignal(request, exp, a5)
    IN  [score |-> FAdd(a6.score, HighlightBoost(exp)),
         rationale |-> a6.rationale]

\* line 117 as score >= 0
KeepsNonNegative(score) == ~FLess(score, F0)

\* line 117: the test that keeps a candidate
Keeps(score) == FPositive(score)

\* line 122 with the fallback added to every rationale
RationalePlusFallback(rationale) ==
    Append(rationale, Line("fallback", <<"broadly suitable plan">>, <<>>))

\* line 122 without the fallback
RationaleAsIs(rationale) == rationale

\* line 122: tuple(rationale) or (fallback,)
RationaleOrFallback(rationale) ==
    IF rationale # <<>> THEN rationale
    ELSE <<Line("fallback", <<"broadly suitable plan">>, <<>>)>>

\* lines 73-124: the loop body for the experience at position idx
LoopBody(request, city_normalized, exps, idx, scored) ==
    IF ~PassesCityFilter(city_normalized, exps[idx]) THEN scored
    ELSE LET ev == Evaluate(request, city_normalized, exps[idx])
         IN  IF Keeps(ev.score)
             THEN Append(scored,
                         Recommendation(idx, ev.score,
                                        RationaleOrFallback(ev.rationale)))
             ELSE scored

\* rec goes before the entries of equal score: an ascending sort, reversed
InsertBeforeEqual(rec, sorted) ==
    LET after == {i \in 1..Len(sorted) : FLess(rec.score, sorted[i].score)}
        n == IF after = {} THEN 0 ELSE CHOOSE i \in after : \A j \in after : j <= i
    IN  SubSeq(sorted, 1, n) \o <<rec>> \o SubSeq(sorted, n + 1, Len(sorted))

\* rec goes after the entries of the sorted list whose score is not lower
InsertByScore(rec, sorted) ==
    LET after == {i \in 1..Len(sorted) : FLeq(rec.score, sorted[i].score)}
        n == IF after = {} THEN 0 ELSE CHOOSE i \in after : \A j \in after : j <= i
    IN  SubSeq(sorted, 1, n) \o <<rec>> \o SubSeq(sorted, n + 1, Len(sorted))

RECURSIVE SortFrom(_, _, _)
SortFrom(recs, i, sorted) ==
    IF i > Len(recs) THEN sorted
    ELSE SortFrom(recs, i + 1, InsertByScore(recs[i], sorted))

\* line 126: scored.sort(key=score, reverse=True), a stable sort: entries
\* of equal score keep their order
SortByScoreDesc(scored) == SortFrom(scored, 1, <<>>)

\* line 127 without the floor
LimitAsGiven(request) == request.limit

\* line 127: max(1, request.limit)
EffectiveLimit(request) == Max2(1, request.limit)

\* line 128 with the end index included
SlicePrefixInclusive(s, limit) == SubSeq(s, 1, Min2(limit + 1, Len(s)))

\* line 128 as scored[-limit:], the end of the list
SliceSuffix(s, limit) ==
    IF limit > 0 THEN SubSeq(s, Max2(1, Len(s) - limit + 1), Len(s)) ELSE s

\* line 128: scored[:limit], as Python slices (a negative limit counts
\* from the end)
SlicePrefix(s, limit) ==
    IF limit >= 0 THEN SubSeq(s, 1, Min2(limit, Len(s)))
    ELSE SubSeq(s, 1, Max2(0, Len(s) + limit))

\* lines 126-128
SortAndTruncate(request, scored) ==
    SlicePrefix(SortByScoreDesc(scored), EffectiveLimit(request))

RECURSIVE LoopFrom(_, _, _, _, _)
\* lines 73-124: the loop from position idx on
LoopFrom(request, city_normalized, exps, idx, scored) ==
    IF idx > Len(exps) THEN scored
    ELSE LoopFrom(request, city_normalized, exps, idx + 1,
                  LoopBody(request, city_normalized, exps, idx, scored))

\* lines 67-128: what recommend(request) returns on an engine over exps
Recommend(exps, request) ==
    SortAndTruncate(request,
        LoopFrom(request, Normalize(Some(CanonicalCity(request.city))),
                 exps, 1, <<>>))

(***************************************************************************)
(* Bounds of the check, and the inputs drawn within them                    *)
(***************************************************************************)
\* longest list of experiences a caller hands to the constructor
MaxCatalog == 2

\* largest limit of a request
MaxLimit == 2

\* limits run from -MaxNegLimit
MaxNegLimit == 1

\* experiences a caller builds catalogs from: PoolA is EXPERIENCES[1];
\* PoolB and PoolC differ from it in the budget band only (one band and
\* four bands pricier); PoolD is in another city, two hours long, with four
\* highlights; PoolE has a city in mixed case with blanks around it, a budget
\* code outside BUDGET_LEVELS and no highlight
PoolA == EXPERIENCES[1]

PoolB == [PoolA EXCEPT !.title = "B", !.budget = "YY-plus"]

PoolC == [PoolA EXCEPT !.title = "C", !.budget = "Y-premium"]

PoolD ==
    Experience(Kyoto, "D", "outdoor", "Y-light", "clear", "relax", 2,
               <<"h1", "h2", "h3", "h4">>)

PoolE ==
    Experience(<<" ", "T", "o", "k", "y", "o", " ", "B", "a", "y", " ">>, "E",
               "indoor", "free", "rain", "relax", 5, <<>>)

ExperiencePool == {PoolA, PoolB, PoolC, PoolD, PoolE}

\* the lists of 1..MaxCatalog distinct experiences
Catalogs ==
    UNION {{c \in [1..n -> ExperiencePool] :
               \A i, j \in 1..n : c[i] = c[j] => i = j} : n \in 1..MaxCatalog}

\* what a caller passes as `experiences`: None, an empty list, an empty
\* tuple, an iterator that yields nothing, or a list of experiences
ConstructorArgs ==
    {[kind |-> "none", items |-> <<>>], [kind |-> "list", items |-> <<>>],
     [kind |-> "tuple", items |-> <<>>], [kind |-> "iter", items |-> <<>>]}
    \cup {[kind |-> "list", items |-> c] : c \in Catalogs}

RequestCities ==
    {None, Some(<<" ", "U3000">>),
     Some(<<" ", "T", "O", "k", "y", "o", " ">>), Some(Tokyo),
     Some(<<"U4EAC">>), Some(<<"B", "a", "y", " ">>)}

RequestBudgets == {None, Some("YY"), Some("YYY"), Some("cheap")}

RequestWeathers == {None, Some("clear")}

RequestMoods == {None, Some("romantic")}

RequestActivities == {None, Some("indoor")}

RequestDurations == {None, Some(2)}

RequestLimits == (0 - MaxNegLimit)..MaxLimit

Requests ==
    {RecommendationRequest(c, b, w, m, a, d, l) :
        c \in RequestCities, b \in RequestBudgets, w \in RequestWeathers,
        m \in RequestMoods, a \in RequestActivities, d \in RequestDurations,
        l \in RequestLimits}

(***************************************************************************)
(* State                                                                    *)
(***************************************************************************)
VARIABLES
    engine,       \* "none" before construction, "ready" with an engine,
                  \* "failed" when __init__ raised
    given,        \* the argument the constructor was called with
    experiences,  \* DateOutingAI._experiences
    calls,        \* per recommend call: its locals and what it returned
    shown,        \* per caller: what cli.main or the web index handler
                  \* has rendered from its call
    data          \* the data module: RAW_EXPERIENCES, EXPERIENCE_DETAILS and
                  \* the EXPERIENCES built from them

vars == <<engine, given, experiences, calls, shown, data>>

\* the callers of recommend
CallIds == DOMAIN calls

IdleCall ==
    [pc |-> "idle", request |-> None, city_normalized |-> <<>>, i |-> 0,
     scored |-> <<>>, result |-> <<>>]

\* a caller that is no collaborator, or a collaborator before its handler ran
NothingShown ==
    [via |-> "none", view |-> "none", status |-> 0, message |-> "none",
     items |-> <<>>]

Init ==
    /\ engine = "none"
    /\ given = [kind |-> "none", items |-> <<>>]
    /\ experiences = <<>>
    /\ calls = [c \in {1} |-> IdleCall]
    /\ shown = [c \in {1} |-> NothingShown]
    /\ data = ImportedData

\* bool(experiences) of the constructor's argument: None and the empty
\* list or tuple are false, an iterator is true
ArgTruthy(arg) ==
    \/ arg.kind = "iter"
    \/ (arg.kind \in {"list", "tuple"} /\ arg.items # <<>>)

\* line 63: list(experiences or EXPERIENCES)
ListOfArgOrDefault(arg) == IF ArgTruthy(arg) THEN arg.items ELSE EXPERIENCES

\* DateOutingAI.__init__ (lines 62-65)
Construct(arg) ==
    /\ UNCHANGED data
    /\ engine = "none"
    /\ given' = arg
    /\ LET list == ListOfArgOrDefault(arg)
       IN  IF list = <<>>
           THEN engine' = "failed" /\ experiences' = <<>>
           ELSE engine' = "ready" /\ experiences' = list
    /\ UNCHANGED <<calls, shown>>

\* line 70 with scored kept from an earlier call that has returned
StartedCallKeepsScored(request) ==
    [pc |-> "loop", request |-> Some(request),
     city_normalized |-> Normalize(Some(CanonicalCity(request.city))),
     i |-> 1,
     scored |-> IF \E d \in DOMAIN calls : calls[d].pc = "done"
                THEN calls[CHOOSE d \in DOMAIN calls : calls[d].pc = "done"].scored
                ELSE <<>>,
     result |-> <<>>]

\* line 70 with scored shared with a call that is in its loop
StartedCallSharesScored(request) ==
    [pc |-> "loop", request |-> Some(request),
     city_normalized |-> Normalize(Some(CanonicalCity(request.city))),
     i |-> 1,
     scored |-> IF \E d \in DOMAIN calls : calls[d].pc = "loop"
                THEN calls[CHOOSE d \in DOMAIN calls : calls[d].pc = "loop"].scored
                ELSE <<>>,
     result |-> <<>>]

\* recommend, lines 70-72: the locals of a call that starts
StartedCall(request) ==
    [pc |-> "loop", request |-> Some(request),
     city_normalized |-> Normalize(Some(CanonicalCity(request.city))),
     i |-> 1, scored |-> <<>>, result |-> <<>>]

\* recommend, lines 73-124: the call after one more iteration of the loop
SteppedCall(call) ==
    [call EXCEPT
        !.scored = LoopBody(call.request.val, call.city_normalized,
                            experiences, call.i, @),
        !.i = @ + 1]

RECURSIVE LoopedCall(_)
\* recommend, lines 73-124: the call after the whole loop
LoopedCall(call) ==
    IF call.i > Len(experiences) THEN call ELSE LoopedCall(SteppedCall(call))

\* recommend, lines 126-128: the call after sort, truncate and return
ReturnedCall(call) ==
    [call EXCEPT
        !.pc = "done",
        !.result = SortAndTruncate(call.request.val, call.scored)]

\* lines 73-128 with the sort applied to the engine's list
CatalogReversedInPlace(exps) == [k \in 1..Len(exps) |-> exps[Len(exps) + 1 - k]]

\* lines 73-128: self._experiences after recommend has iterated it (line 73
\* reads it; the sort of line 126 is of the local list scored)
CatalogAfterRecommend(exps) == exps

\* DateOutingAI.recommend (lines 67-128) called with a request of the set
\* requests: the method has no suspension point and runs from entry to return
RecommendFrom(c, requests) ==
    /\ UNCHANGED data
    /\ engine = "ready"
    /\ calls[c].pc = "idle"
    /\ \E request \in requests :
           calls' = [calls EXCEPT ![c] = ReturnedCall(LoopedCall(StartedCall(request)))]
    /\ experiences' = CatalogAfterRecommend(experiences)
    /\ UNCHANGED <<engine, given, shown>>

RecommendCall(c) == RecommendFrom(c, Requests)

\* the caller has rendered the result; the call's objects are dropped
Discard(c) ==
    /\ UNCHANGED data
    /\ calls[c].pc = "done"
    /\ calls' = [calls EXCEPT ![c] = IdleCall]
    /\ shown' = [shown EXCEPT ![c] = NothingShown]
    /\ UNCHANGED <<engine, given, experiences>>

Next ==
    \/ \E arg \in ConstructorArgs : Construct(arg)
    \/ \E c \in CallIds : RecommendCall(c)
    \/ \E c \in CallIds : Discard(c)

Spec == Init /\ [][Next]_vars

(***************************************************************************)
(* Two threads that call recommend on one engine, as the request handlers  *)
(* of the web application do: a thread may be preempted between any two    *)
(* iterations of the loop                                                   *)
(***************************************************************************)
InitShared ==
    /\ engine = "none"
    /\ given = [kind |-> "none", items |-> <<>>]
    /\ experiences = <<>>
    /\ calls = [c \in {1, 2} |-> IdleCall]
    /\ shown = [c \in {1, 2} |-> NothingShown]
    /\ data = ImportedData

\* the engine of create_app (the built-in catalog), or one over a caller's
\* list
SharedArgs ==
    {[kind |-> "none", items |-> <<>>],
     [kind |-> "list", items |-> <<PoolD, PoolB>>],
     [kind |-> "list", items |-> <<PoolE, PoolA, PoolC>>]}

SharedRequests ==
    {RecommendationRequest(c, b, None, m, None, None, l) :
        c \in {None, Some(Tokyo), Some(<<"U4EAC">>)},
        b \in {None, Some("YY")},
        m \in {None, Some("romantic")},
        l \in {1, 2}}

\* recommend, lines 67-72: a thread enters the method
BeginRecommend(c) ==
    /\ UNCHANGED data
    /\ engine = "ready"
    /\ calls[c].pc = "idle"
    /\ \E request \in SharedRequests :
           calls' = [calls EXCEPT ![c] = StartedCall(request)]
    /\ UNCHANGED <<engine, given, experiences, shown>>

\* recommend, lines 73-124: one iteration of the loop
ScoreNext(c) ==
    /\ UNCHANGED data
    /\ calls[c].pc = "loop"
    /\ calls[c].i <= Len(experiences)
    /\ calls' = [calls EXCEPT ![c] = SteppedCall(calls[c])]
    /\ UNCHANGED <<engine, given, experiences, shown>>

\* recommend, lines 126-128: the loop is over; sort, truncate, return
Return(c) ==
    /\ UNCHANGED data
    /\ calls[c].pc = "loop"
    /\ calls[c].i > Len(experiences)
    /\ calls' = [calls EXCEPT ![c] = ReturnedCall(calls[c])]
    /\ experiences' = CatalogAfterRecommend(experiences)
    /\ UNCHANGED <<engine, given, shown>>

NextShared ==
    \/ \E arg \in SharedArgs : Construct(arg)
    \/ \E c \in CallIds : BeginRecommend(c)
    \/ \E c \in CallIds : ScoreNext(c)
    \/ \E c \in CallIds : Return(c)
    \/ \E c \in CallIds : Discard(c)

SpecShared == InitShared /\ [][NextShared]_vars

(***************************************************************************)
(* Scoring: catalogs of candidates that differ in one or two attributes     *)
(***************************************************************************)
\* the highlights of a candidate number 0..MaxHighlights
MaxHighlights == 4

\* n highlights
Highlights(n) == [k \in 1..n |-> "h"]

\* EXPERIENCES[1] with another budget band, duration and highlights
Variant(budget, duration_hours, n) ==
    [EXPERIENCES[1] EXCEPT !.title = <<budget, duration_hours, n>>,
                           !.budget = budget,
                           !.duration_hours = duration_hours,
                           !.highlights = Highlights(n)]

ScoringBudgets == {"YY", "YY-plus"}

ScoringDurations == {2, 5}

ScoringPool ==
    {Variant(b, d, n) : b \in ScoringBudgets, d \in ScoringDurations,
                        n \in 0..MaxHighlights}

\* the lists of one or two distinct candidates
ScoringCatalogs ==
    {<<e>> : e \in ScoringPool}
    \cup {c \in [1..2 -> ScoringPool] : c[1] # c[2]}

ScoringArgs == {[kind |-> "list", items |-> c] : c \in ScoringCatalogs}

\* requests that set or leave out every criterion; a criterion that is set
\* matches the candidates or not (the candidates are in Tokyo, clear,
\* romantic, outdoor); the ceiling of three hours lies between the durations
ScoringRequests ==
    {RecommendationRequest(c, b, w, m, a, d, 2) :
        c \in {None, Some(Tokyo)},
        b \in {None, Some("YY"), Some("YYY"), Some("Y")},
        w \in {None, Some("clear"), Some("rain")},
        m \in {None, Some("romantic"), Some("relax")},
        a \in {None, Some("outdoor"), Some("indoor")},
        d \in {None, Some(3)}}

NextScoring ==
    \/ \E arg \in ScoringArgs : Construct(arg)
    \/ \E c \in CallIds : RecommendFrom(c, ScoringRequests)
    \/ \E c \in CallIds : Discard(c)

SpecScoring == Init /\ [][NextScoring]_vars

(***************************************************************************)
(* Requests whose criteria are free text the catalog may not know          *)
(***************************************************************************)
\* every str criterion is absent, a value of the catalog, or a value that
\* is no alias, no band code and no label of the built-in catalog
FreeTextRequests ==
    {RecommendationRequest(c, b, w, m, a, None, 2) :
        c \in {None, Some(<<" ", "T", "O", "k", "y", "o", " ">>),
               Some(<<"O", "z">>)},
        b \in {None, Some("YY"), Some("cheap")},
        w \in {None, Some("clear"), Some("foggy")},
        m \in {None, Some("romantic"), Some("gloomy")},
        a \in {None, Some("indoor"), Some("nap")}}

NextFreeText ==
    \/ \E arg \in ConstructorArgs : Construct(arg)
    \/ \E c \in CallIds : RecommendFrom(c, FreeTextRequests)
    \/ \E c \in CallIds : Discard(c)

SpecFreeText == Init /\ [][NextFreeText]_vars

(***************************************************************************)
(* Limits: catalogs of three candidates, some in another city, under       *)
(* requests that differ in the limit and carry the two penalties           *)
(***************************************************************************)
\* exp, in Kyoto
Elsewhere(exp) == [exp EXCEPT !.city = Kyoto]

\* candidates in Tokyo that are two bands pricier than Y or one, longer than
\* three hours or not, with no highlight or four; and one in Kyoto
LimitPool ==
    {Variant("YY-plus", 5, 0), Variant("YY", 2, 0), Variant("YY-plus", 2, 4),
     Variant("YY", 5, 4), Elsewhere(Variant("YY", 2, 1))}

\* the lists of MaxCatalog + 1 distinct candidates
LimitCatalogs ==
    {c \in [1..(MaxCatalog + 1) -> LimitPool] :
        \A i, j \in 1..(MaxCatalog + 1) : c[i] = c[j] => i = j}

LimitArgs == {[kind |-> "list", items |-> c] : c \in LimitCatalogs}

\* no city, a blank one, the canonical name or an alias in mixed case; the
\* budget Y and the ceiling of three hours penalise some candidates
LimitRequests ==
    {RecommendationRequest(c, b, None, None, None, d, l) :
        c \in {None, Some(<<" ">>), Some(Tokyo),
               Some(<<" ", "T", "O", "k", "y", "o", " ">>)},
        b \in {None, Some("Y")},
        d \in {None, Some(3)},
        l \in 0..(MaxLimit + 1)}

NextLimits ==
    \/ \E arg \in LimitArgs : Construct(arg)
    \/ \E c \in CallIds : RecommendFrom(c, LimitRequests)
    \/ \E c \in CallIds : Discard(c)

SpecLimits == Init /\ [][NextLimits]_vars

(***************************************************************************)
(* cli.py and web.py: the collaborators.  The text of a form field or of a *)
(* command line argument is a sequence of characters; TextOf gives the str *)
(* the engine compares (budget, weather, mood and activity type are        *)
(* strings in the engine's model)                                           *)
(***************************************************************************)
Digits == <<"0", "1", "2", "3", "4", "5", "6", "7", "8", "9">>

IsDigit(ch) == \E i \in 1..Len(Digits) : Digits[i] = ch

DigitValue(ch) == (CHOOSE i \in 1..Len(Digits) : Digits[i] = ch) - 1

RECURSIVE DigitsValue(_, _)
DigitsValue(text, acc) ==
    IF text = <<>> THEN acc
    ELSE DigitsValue(Tail(text), acc * 10 + DigitValue(Head(text)))

\* int(text) without the parse: any text counts as the number 3
ParseIntLenient(text) == Some(3)

\* int(text): blanks around are skipped, then an optional sign and decimal
\* digits; None stands for ValueError
ParseInt(text) ==
    LET t == Strip(text)
        signed == t # <<>> /\ Head(t) \in {"-", "+"}
        body == IF signed THEN Tail(t) ELSE t
    IN  IF body = <<>> \/ \E k \in 1..Len(body) : ~IsDigit(body[k]) THEN None
        ELSE IF Head(t) = "-" THEN Some(0 - DigitsValue(body, 0))
        ELSE Some(DigitsValue(body, 0))

\* the str of a text, for the texts the inputs use
TextOf(text) ==
    CASE text = <<>> -> ""
      [] text = <<"Y", "Y">> -> "YY"
      [] text = <<"c", "l", "e", "a", "r">> -> "clear"
      [] OTHER -> "unlisted"

\* mapping.get(key) or ""
GetOrEmpty(field) == IF IsNone(field) THEN <<>> ELSE field.val

\* web.py lines 128-133: the limit of the form
FormLimit(limit_raw) ==
    IF GetOrEmpty(limit_raw) = <<>> THEN 3
    ELSE IF IsNone(ParseInt(limit_raw.val)) THEN 3
    ELSE Max2(1, Min2(ParseInt(limit_raw.val).val, 10))

\* web.py lines 135-139: the ceiling of the form, None for no ceiling
FormMaxHours(max_hours_raw) ==
    IF GetOrEmpty(max_hours_raw) = <<>> THEN None
    ELSE ParseInt(max_hours_raw.val)

\* _parse_form (web.py lines 124-141)
ParseForm(mapping) ==
    [city |-> Strip(GetOrEmpty(mapping.city)),
     budget |-> TextOf(Strip(GetOrEmpty(mapping.budget))),
     weather |-> TextOf(Strip(GetOrEmpty(mapping.weather))),
     mood |-> TextOf(Strip(GetOrEmpty(mapping.mood))),
     activity_type |-> TextOf(Strip(GetOrEmpty(mapping.activity_type))),
     max_duration_hours |-> FormMaxHours(mapping.max_duration_hours),
     limit |-> FormLimit(mapping.limit)]

\* value or None, on a str
OrNone(text) == IF text = "" THEN None ELSE Some(text)

\* web.py lines 68-76 and 85-93: the request built from the form
RequestOfForm(form) ==
    RecommendationRequest(Some(form.city), OrNone(form.budget),
                          OrNone(form.weather), OrNone(form.mood),
                          OrNone(form.activity_type), form.max_duration_hours,
                          IF form.limit = 0 THEN 3 ELSE form.limit)

\* bool(request.args): some parameter is present
MappingTruthy(mapping) ==
    \E key \in DOMAIN mapping : ~IsNone(mapping[key])

\* what a handler has rendered
Shown(via, view, status, message, items) ==
    [via |-> via, view |-> view, status |-> status, message |-> message,
     items |-> items]

\* the rendered view, with what the handler was given: request.method and
\* request.form or request.args, or argv
Receiving(received, view) == view @@ [received |-> received]

\* create_app (web.py lines 45-49): the application and its one engine
CreateApp ==
    /\ \A c \in CallIds : shown[c].via = "none"
    /\ Construct([kind |-> "none", items |-> <<>>])

\* index, lines 86-103: the page is rendered with the message and the cards
IndexRendered(c, method, mapping, invoked, call) ==
    /\ calls' = [calls EXCEPT ![c] = call]
    /\ shown' = [shown EXCEPT ![c] =
                     Receiving([method |-> method, mapping |-> mapping],
                         Shown("web", "html", 200,
                               IF invoked
                               THEN IF call.result = <<>> THEN "no_match" ELSE "none"
                               ELSE IF method = "POST" THEN "select_area" ELSE "none",
                               call.result))]
    /\ experiences' = IF invoked THEN CatalogAfterRecommend(experiences)
                      ELSE experiences

\* index, lines 64-85 with the engine called for every parsed form
IndexParsedAnyCity(c, method, mapping, form, parsed) ==
    IndexRendered(c, method, mapping, parsed,
                  IF parsed
                  THEN ReturnedCall(LoopedCall(StartedCall(RequestOfForm(form))))
                  ELSE IdleCall)

\* index, lines 64-85: the form is parsed when the request is a POST or
\* carries query arguments, and the engine is called when its city is not
\* empty
IndexParsed(c, method, mapping, form, parsed) ==
    IndexRendered(c, method, mapping, parsed /\ form.city # <<>>,
                  IF parsed /\ form.city # <<>>
                  THEN ReturnedCall(LoopedCall(StartedCall(RequestOfForm(form))))
                  ELSE IdleCall)

\* index (web.py lines 57-103) serving one request
Index(c, method, mapping) ==
    /\ UNCHANGED data
    /\ engine = "ready"
    /\ calls[c].pc = "idle"
    /\ shown[c].via = "none"
    /\ IndexParsed(c, method, mapping, ParseForm(mapping),
                   method = "POST" \/ MappingTruthy(mapping))
    /\ UNCHANGED <<engine, given>>

\* the response is sent; the handler's objects are dropped
Respond(c) ==
    /\ UNCHANGED data
    /\ shown[c].via = "web"
    /\ calls' = [calls EXCEPT ![c] = IdleCall]
    /\ shown' = [shown EXCEPT ![c] = NothingShown]
    /\ UNCHANGED <<engine, given, experiences>>

WeatherChoices == {"clear", "cloudy", "rain", "snow"}

FormatChoices == {"text", "json"}

\* parser.parse_args (cli.py lines 14-67) accepts the command line: no value
\* is outside its choices and int accepts the numbers (argparse exits with a
\* usage error otherwise)
ArgsAccepted(argv) ==
    /\ IsNone(argv.budget)
       \/ \E i \in 1..Len(BUDGET_LEVELS) : BUDGET_LEVELS[i] = argv.budget.val
    /\ IsNone(argv.weather) \/ argv.weather.val \in WeatherChoices
    /\ IsNone(argv.format) \/ argv.format.val \in FormatChoices
    /\ IsNone(argv.limit) \/ ~IsNone(ParseInt(argv.limit.val))
    /\ IsNone(argv.max_duration_hours)
       \/ ~IsNone(ParseInt(argv.max_duration_hours.val))

\* the Namespace parse_args returns for an accepted command line, with the
\* defaults of build_parser (limit 3, format text)
ParseArgs(argv) ==
    [city |-> argv.city,
     budget |-> argv.budget,
     weather |-> argv.weather,
     mood |-> argv.mood,
     activity_type |-> argv.activity_type,
     max_duration_hours |-> IF IsNone(argv.max_duration_hours) THEN None
                            ELSE ParseInt(argv.max_duration_hours.val),
     limit |-> IF IsNone(argv.limit) THEN 3 ELSE ParseInt(argv.limit.val).val,
     format |-> IF IsNone(argv.format) THEN "text" ELSE argv.format.val,
     list_budgets |-> argv.list_budgets]

\* cli.py lines 76-84: the request built from the arguments
RequestOfArgs(args) ==
    RecommendationRequest(args.city, args.budget, args.weather, args.mood,
                          args.activity_type, args.max_duration_hours,
                          args.limit)

\* cli.py lines 89-159: what main prints for the result, and its exit code
CliView(format, result) ==
    IF format = "json" THEN Shown("cli", "json", 0, "none", result)
    ELSE IF result = <<>> THEN Shown("cli", "text", 0, "no_match", <<>>)
    ELSE Shown("cli", "text", 0, "none", result)

\* recommend, lines 126-128, of a call on an engine over exps whose loop left
\* scored
CallDone(exps, request, city_normalized, scored) ==
    [pc |-> "done", request |-> Some(request),
     city_normalized |-> city_normalized,
     i |-> Len(exps) + 1,
     scored |-> scored,
     result |-> SortAndTruncate(request, scored)]

\* recommend, lines 73-128, of a call on an engine over exps
CallLooped(exps, request, city_normalized) ==
    CallDone(exps, request, city_normalized,
             LoopFrom(request, city_normalized, exps, 1, <<>>))

\* cli.py lines 86-87: the call ai.recommend(request) on the engine main has
\* just built over exps, from entry to return
CallOn(exps, request) ==
    CallLooped(exps, request, Normalize(Some(CanonicalCity(request.city))))

\* cli.py lines 87-159: the call has returned and its result is printed
CliRendered(c, argv, format, call) ==
    /\ calls' = [calls EXCEPT ![c] = call]
    /\ shown' = [shown EXCEPT ![c] = Receiving(argv, CliView(format, call.result))]

\* main (cli.py lines 65-159) in a process of its own
CliMain(c, argv) ==
    /\ UNCHANGED data
    /\ engine = "none"
    /\ calls[c].pc = "idle"
    /\ shown[c].via = "none"
    /\ LET args == ParseArgs(argv)
       IN  IF ~ArgsAccepted(argv)
           THEN /\ shown' = [shown EXCEPT ![c] =
                                Receiving(argv, Shown("cli", "usage", 2, "none", <<>>))]
                /\ UNCHANGED <<engine, given, experiences, calls>>
           ELSE IF args.list_budgets
           THEN /\ shown' = [shown EXCEPT ![c] =
                                Receiving(argv, Shown("cli", "budgets", 0, "none", <<>>))]
                /\ UNCHANGED <<engine, given, experiences, calls>>
           ELSE IF IsNone(args.city) \/ args.city.val = <<>>
           THEN /\ shown' = [shown EXCEPT ![c] =
                                Receiving(argv, Shown("cli", "usage", 2, "none", <<>>))]
                /\ UNCHANGED <<engine, given, experiences, calls>>
           ELSE /\ engine' = "ready"
                /\ given' = [kind |-> "none", items |-> <<>>]
                /\ experiences' = ListOfArgOrDefault([kind |-> "none", items |-> <<>>])
                /\ CliRendered(c, argv, args.format,
                               CallOn(ListOfArgOrDefault([kind |-> "none", items |-> <<>>]),
                                      RequestOfArgs(args)))

\* the process ends: main has returned or exited, or the server is stopped
Exit ==
    /\ UNCHANGED data
    /\ \/ \E c \in CallIds : shown[c].via = "cli"
       \/ engine = "ready" /\ \A c \in CallIds : shown[c].via = "none"
    /\ engine' = "none"
    /\ given' = [kind |-> "none", items |-> <<>>]
    /\ experiences' = <<>>
    /\ calls' = [c \in CallIds |-> IdleCall]
    /\ shown' = [c \in CallIds |-> NothingShown]

\* texts of a number field
NumberTexts ==
    {None, Some(<<>>), Some(<<"a", "b", "c">>), Some(<<"-", "1">>),
     Some(<<"0">>), Some(<<"2">>)}

\* texts of the limit
LimitTexts ==
    {None, Some(<<>>), Some(<<"a", "b", "c">>), Some(<<"-", "1">>),
     Some(<<"0">>), Some(<<"1">>), Some(<<" ", "5", " ">>),
     Some(<<"1", "0">>), Some(<<"1", "1">>)}

CityTexts ==
    {None, Some(<<>>), Some(<<" ">>), Some(Tokyo),
     Some(<<" ", "T", "O", "k", "y", "o", " ">>), Some(<<"O", "z">>)}

\* a form or the query parameters
Mappings ==
    {[city |-> c, budget |-> b, weather |-> w, mood |-> None,
      activity_type |-> None, max_duration_hours |-> d, limit |-> l] :
        c \in CityTexts, b \in {None, Some(<<" ", "Y", "Y">>)},
        w \in {None, Some(<<"c", "l", "e", "a", "r">>)},
        d \in NumberTexts, l \in LimitTexts}

\* command lines
Argvs ==
    {[city |-> c, budget |-> b, weather |-> None, mood |-> None,
      activity_type |-> None, max_duration_hours |-> d, limit |-> l,
      format |-> f, list_budgets |-> lb] :
        c \in CityTexts, b \in {None, Some("YY"), Some("cheap")},
        d \in {None, Some(<<"0">>), Some(<<"a", "b", "c">>)},
        l \in LimitTexts \ {Some(<<>>)},
        f \in {None, Some("json"), Some("xml")}, lb \in BOOLEAN}

NextCollaborators ==
    \/ CreateApp
    \/ \E c \in CallIds, method \in {"GET", "POST"}, mapping \in Mappings :
           Index(c, method, mapping)
    \/ \E c \in CallIds : Respond(c)
    \/ \E c \in CallIds, argv \in Argvs : CliMain(c, argv)
    \/ Exit

SpecCollaborators == Init /\ [][NextCollaborators]_vars

(***************************************************************************)
(* The budget signal over every pair of codes: one candidate per catalog, *)
(* requests that name a budget                                              *)
(***************************************************************************)
\* the band codes and two codes outside BUDGET_LEVELS
BudgetCodes == {BUDGET_LEVELS[i] : i \in 1..Len(BUDGET_LEVELS)} \cup {"cheap", "free"}

\* EXPERIENCES[1] with another budget code
BudgetVariant(budget) == [EXPERIENCES[1] EXCEPT !.title = budget, !.budget = budget]

BudgetArgs == {[kind |-> "list", items |-> <<BudgetVariant(b)>>] : b \in BudgetCodes}

\* requests with no budget, an empty budget or a budget code, with and without
\* the city of the candidate
BudgetRequests ==
    {RecommendationRequest(c, b, None, None, None, None, 1) :
        c \in {None, Some(Tokyo)},
        b \in {None, Some("")} \cup {Some(code) : code \in BudgetCodes}}

NextBudget ==
    \/ \E arg \in BudgetArgs : Construct(arg)
    \/ \E c \in CallIds : RecommendFrom(c, BudgetRequests)
    \/ \E c \in CallIds : Discard(c)

SpecBudget == Init /\ [][NextBudget]_vars

(***************************************************************************)
(* The import of the data module, over raw records and detail mappings     *)
(* other than the module's own                                              *)
(***************************************************************************)
RawTitles == {"t1", "t2"}

\* the detail a raw record brings itself: none, one no mapping has, or the
\* one the mappings give
OwnDetails == {None, Some(ExperienceDetail("own")), Some(ExperienceDetail("d1"))}

RawPool ==
    {RawExperience([EXPERIENCES[1] EXCEPT !.title = t], d) :
        t \in RawTitles, d \in OwnDetails}

\* one or two raw records with titles of their own
RawCatalogs ==
    {<<r>> : r \in RawPool}
    \cup {c \in [1..2 -> RawPool] : c[1].title # c[2].title}

\* the mappings from some of the titles to a detail
DetailMaps ==
    UNION {[T -> {ExperienceDetail("d1"), ExperienceDetail("d2")}] :
              T \in SUBSET RawTitles}

CatalogRequests ==
    {RecommendationRequest(c, None, None, None, None, None, l) :
        c \in {None, Some(Tokyo)}, l \in {1, 2}}

\* the module before its line 2813 has run
InitCatalog ==
    /\ engine = "none"
    /\ given = [kind |-> "none", items |-> <<>>]
    /\ experiences = <<>>
    /\ calls = [c \in {1} |-> IdleCall]
    /\ shown = [c \in {1} |-> NothingShown]
    /\ data \in {DataModule(FALSE, raw, details, <<>>) :
                    raw \in RawCatalogs, details \in DetailMaps}

\* data.py line 2813, at import
BuildCatalog ==
    /\ ~data.imported
    /\ data' = [data EXCEPT
                   !.imported = TRUE,
                   !.EXPERIENCES = BuiltCatalog(data.RAW_EXPERIENCES,
                                                data.EXPERIENCE_DETAILS)]
    /\ UNCHANGED <<engine, given, experiences, calls, shown>>

\* DateOutingAI() (recommender.py lines 62-65) over the module's EXPERIENCES
ConstructDefault ==
    /\ data.imported
    /\ engine = "none"
    /\ given' = [kind |-> "none", items |-> <<>>]
    /\ IF data.EXPERIENCES = <<>>
       THEN engine' = "failed" /\ experiences' = <<>>
       ELSE engine' = "ready" /\ experiences' = data.EXPERIENCES
    /\ UNCHANGED <<calls, shown, data>>

NextCatalog ==
    \/ BuildCatalog
    \/ ConstructDefault
    \/ \E c \in CallIds : RecommendFrom(c, CatalogRequests)
    \/ \E c \in CallIds : Discard(c)

SpecCatalog == InitCatalog /\ [][NextCatalog]_vars

(***************************************************************************)
(* Properties                                                               *)
(***************************************************************************)
\* the request of call c, once it has started
Req(c) == calls[c].request.val

Returned(c) == calls[c].pc = "done"

\* the catalog positions the call has kept so far
ScoredPositions(c) == {calls[c].scored[k].experience : k \in 1..Len(calls[c].scored)}

\* the str a request names as its city, trimmed ("" when absent)
TrimmedCity(request) ==
    IF IsNone(request.city) THEN <<>> ELSE Strip(request.city.val)

IsAliasKey(key) == \E i \in 1..Len(CITY_ALIASES) : CITY_ALIASES[i][1] = key

\* the city of the experience at a catalog position, trimmed and lower-cased
CatalogCity(i) == Lower(Strip(experiences[i].city))

\* C1: constructing the engine with an empty collection (an empty list, an
\* empty tuple) raises, and no engine is produced.
C1_EmptyCollectionRaises ==
    (engine # "none" /\ given.kind \in {"list", "tuple"} /\ given.items = <<>>)
        => engine = "failed"

\* C2: when the requested city is non-empty after trimming, every returned
\* recommendation is for an experience whose trimmed, lower-cased city
\* contains the trimmed, alias-resolved, lower-cased requested city.
C2_ReturnedCitiesContainRequested ==
    \A c \in CallIds :
        (Returned(c) /\ TrimmedCity(Req(c)) # <<>>) =>
            LET trimmed == TrimmedCity(Req(c))
                wanted == Lower(AliasGet(Lower(trimmed), trimmed))
            IN  \A k \in 1..Len(calls[c].result) :
                    Contains(wanted, CatalogCity(calls[c].result[k].experience))

\* C2 witness: a call with a city returned something and left out a catalog
\* entry of another city.
C2_Witness ==
    \E c \in CallIds :
        /\ Returned(c)
        /\ TrimmedCity(Req(c)) # <<>>
        /\ calls[c].result # <<>>
        /\ Req(c).limit >= Len(experiences)
        /\ \E i \in 1..Len(experiences) :
               /\ ~Contains(calls[c].city_normalized, CatalogCity(i))
               /\ \A k \in 1..Len(calls[c].result) : calls[c].result[k].experience # i

\* the score of an experience from the signals other than the city
NonCityScore(request, exp) ==
    LET a0 == [score |-> F0, rationale |-> <<>>]
        a6 == DurationSignal(request, exp,
                  ActivitySignal(request, exp,
                      MoodSignal(request, exp,
                          WeatherSignal(request, exp,
                              BudgetSignal(request, exp, a0)))))
    IN  FAdd(a6.score, HighlightBoost(exp))

\* C3: when the requested city is absent, empty or blank, no experience is
\* filtered out: every catalog entry is scored, the kept ones are exactly those
\* whose score without a city signal is positive, and none has the +2.0 or a
\* city line.
C3_BlankCityFiltersNothing ==
    \A c \in CallIds :
        (Returned(c) /\ TrimmedCity(Req(c)) = <<>>) =>
            /\ calls[c].city_normalized = <<>>
            /\ calls[c].i = Len(experiences) + 1
            /\ \A i \in 1..(calls[c].i - 1) :
                   /\ PassesCityFilter(calls[c].city_normalized, experiences[i])
                   /\ i \in ScoredPositions(c)
                          <=> FPositive(NonCityScore(Req(c), experiences[i]))
            /\ \A k \in 1..Len(calls[c].scored) :
                   LET rec == calls[c].scored[k]
                   IN  /\ rec.score = NonCityScore(Req(c), experiences[rec.experience])
                       /\ \A n \in 1..Len(rec.rationale) : rec.rationale[n].kind # "city"

\* C3 witness: a call whose city is blanks only has scored and kept every entry
\* of a catalog of two cities.
C3_Witness ==
    \E c \in CallIds :
        /\ Returned(c)
        /\ ~IsNone(Req(c).city) /\ Req(c).city.val # <<>>
        /\ TrimmedCity(Req(c)) = <<>>
        /\ Len(experiences) >= 2
        /\ ScoredPositions(c) = 1..Len(experiences)
        /\ \E i, j \in 1..Len(experiences) : CatalogCity(i) # CatalogCity(j)

\* C4: a city that is an alias key in any letter case, with blanks around it,
\* gives the same list as the local-script name the key maps to; any other city
\* is used as the filter as it is, trimmed and lower-cased.
C4_AliasSameAsCanonical ==
    \A c \in CallIds :
        (Returned(c) /\ TrimmedCity(Req(c)) # <<>>) =>
            LET key == Lower(TrimmedCity(Req(c)))
            IN  IF IsAliasKey(key)
                THEN calls[c].result =
                         Recommend(experiences,
                                   [Req(c) EXCEPT !.city = Some(AliasGet(key, key))])
                ELSE /\ calls[c].city_normalized = key
                     /\ \A i \in 1..Len(experiences) :
                            i \in ScoredPositions(c) => Contains(key, CatalogCity(i))

\* C4 witness: a call whose city is an alias key in mixed case with blanks
\* around it returned an entry and left another city's entry out.
C4_Witness ==
    \E c \in CallIds :
        /\ Returned(c)
        /\ TrimmedCity(Req(c)) # <<>>
        /\ Req(c).city.val # TrimmedCity(Req(c))
        /\ Lower(TrimmedCity(Req(c))) # TrimmedCity(Req(c))
        /\ IsAliasKey(Lower(TrimmedCity(Req(c))))
        /\ calls[c].result # <<>>
        /\ Len(calls[c].scored) < Len(experiences)

\* two experiences that differ in the budget code at most (and the title)
SameButBudget(e1, e2) ==
    [e1 EXCEPT !.budget = "", !.title = ""] = [e2 EXCEPT !.budget = "", !.title = ""]

\* 0 for the requested code, 1 for a band next to it, 2 for a band further
\* away, 3 when either code is outside the band sequence
BudgetClass(requested, candidate) ==
    IF requested = candidate THEN 0
    ELSE IF IsNone(BudgetIndexGet(requested)) \/ IsNone(BudgetIndexGet(candidate)) THEN 3
    ELSE IF Abs(BudgetIndexGet(requested).val - BudgetIndexGet(candidate).val) = 1 THEN 1
    ELSE 2

\* C5: with a requested budget of the band sequence, of two candidates that
\* differ in their budget only, the one in the requested band scores strictly
\* higher than one in a band next to it, which scores strictly higher than one
\* two or more bands away, pricier or cheaper.
C5_ExactAboveAdjacentAboveFar ==
    \A c \in CallIds :
        (Returned(c) /\ Truthy(Req(c).budget)
         /\ ~IsNone(BudgetIndexGet(Req(c).budget.val))) =>
            \A i, j \in 1..Len(experiences) :
                LET ci == BudgetClass(Req(c).budget.val, experiences[i].budget)
                    cj == BudgetClass(Req(c).budget.val, experiences[j].budget)
                IN  (SameButBudget(experiences[i], experiences[j])
                     /\ PassesCityFilter(calls[c].city_normalized, experiences[i])
                     /\ ci < cj /\ cj <= 2) =>
                        /\ FLess(Evaluate(Req(c), calls[c].city_normalized, experiences[j]).score,
                                 Evaluate(Req(c), calls[c].city_normalized, experiences[i]).score)
                        /\ \A k, l \in 1..Len(calls[c].scored) :
                               (calls[c].scored[k].experience = i
                                /\ calls[c].scored[l].experience = j) =>
                                   FLess(calls[c].scored[l].score, calls[c].scored[k].score)

\* C5 witness: a call has kept two candidates that differ in the budget only,
\* one in a band next to the requested one and one further away.
C5_Witness ==
    \E c \in CallIds :
        /\ Returned(c)
        /\ Truthy(Req(c).budget)
        /\ \E k, l \in 1..Len(calls[c].scored) :
               LET ek == experiences[calls[c].scored[k].experience]
                   el == experiences[calls[c].scored[l].experience]
               IN  /\ SameButBudget(ek, el)
                   /\ BudgetClass(Req(c).budget.val, ek.budget) = 1
                   /\ BudgetClass(Req(c).budget.val, el.budget) = 2

\* the catalog positions that pass the city filter of the call's request and
\* score above zero
PositiveMatches(c) ==
    LET trimmed == TrimmedCity(Req(c))
        wanted == Lower(AliasGet(Lower(trimmed), trimmed))
    IN  {i \in 1..Len(experiences) :
            /\ (wanted = <<>> \/ Contains(wanted, CatalogCity(i)))
            /\ FLess(F0, Evaluate(Req(c), wanted, experiences[i]).score)}

\* C6: the returned list has min(P, max(1, limit)) entries, P being the number
\* of experiences that pass the city filter and score above zero.
C6_ResultLength ==
    \A c \in CallIds :
        Returned(c) =>
            Len(calls[c].result) =
                Min2(Cardinality(PositiveMatches(c)), Max2(1, Req(c).limit))

\* C6 witness: a call returned fewer entries than matched (the limit cut the
\* list) with a limit above one.
C6_Witness ==
    \E c \in CallIds :
        /\ Returned(c)
        /\ Req(c).limit >= 2
        /\ Cardinality(PositiveMatches(c)) > Req(c).limit
        /\ Len(calls[c].result) = Req(c).limit

\* C7: the returned list is in non-increasing order of score, and entries of
\* equal score are in catalog order.
C7_SortedDescendingStable ==
    \A c \in CallIds :
        Returned(c) =>
            \A k, l \in 1..Len(calls[c].result) :
                k < l =>
                    /\ FLeq(calls[c].result[l].score, calls[c].result[k].score)
                    /\ calls[c].result[l].score = calls[c].result[k].score
                           => calls[c].result[k].experience < calls[c].result[l].experience

\* C7 witness: a call returned two entries of equal score.
C7_Witness ==
    \E c \in CallIds :
        /\ Returned(c)
        /\ Len(calls[c].result) >= 2
        /\ calls[c].result[1].score = calls[c].result[2].score

\* C7, the other case: a call returned the later catalog entry first, its score
\* being higher.
C7_ReorderedWitness ==
    \E c \in CallIds :
        /\ Returned(c)
        /\ Len(calls[c].result) >= 2
        /\ calls[c].result[1].experience > calls[c].result[2].experience
        /\ FLess(calls[c].result[2].score, calls[c].result[1].score)

\* C8: every returned recommendation has a non-empty rationale.
C8_RationaleNonEmpty ==
    \A c \in CallIds :
        Returned(c) =>
            \A k \in 1..Len(calls[c].result) : calls[c].result[k].rationale # <<>>

\* C8 witness: a call with no criterion at all returned an entry, which no
\* signal wrote a line for.
C8_Witness ==
    \E c \in CallIds :
        /\ Returned(c)
        /\ TrimmedCity(Req(c)) = <<>>
        /\ IsNone(Req(c).budget) /\ IsNone(Req(c).weather) /\ IsNone(Req(c).mood)
        /\ IsNone(Req(c).activity_type) /\ IsNone(Req(c).max_duration_hours)
        /\ calls[c].result # <<>>

\* C9: every returned recommendation has a score above zero, and a candidate
\* that passed the city filter with a score of zero or less is not kept.
C9_OnlyPositiveScores ==
    \A c \in CallIds :
        Returned(c) =>
            /\ \A k \in 1..Len(calls[c].result) : FLess(F0, calls[c].result[k].score)
            /\ \A k \in 1..Len(calls[c].scored) : FLess(F0, calls[c].scored[k].score)
            /\ \A i \in 1..Len(experiences) :
                   ~FLess(F0, Evaluate(Req(c), calls[c].city_normalized, experiences[i]).score)
                       => i \notin ScoredPositions(c)

\* C9 witness: a call dropped a candidate whose score is exactly zero and
\* returned another one.
C9_Witness ==
    \E c \in CallIds :
        /\ Returned(c)
        /\ calls[c].result # <<>>
        /\ \E i \in 1..Len(experiences) :
               /\ PassesCityFilter(calls[c].city_normalized, experiences[i])
               /\ Evaluate(Req(c), calls[c].city_normalized, experiences[i]).score = F0
               /\ i \notin ScoredPositions(c)

\* C10: a limit of zero or less gives the list that limit 1 gives: the one
\* top-ranked kept candidate, or nothing when none was kept.
C10_LimitFlooredToOne ==
    \A c \in CallIds :
        (Returned(c) /\ Req(c).limit <= 0) =>
            /\ calls[c].result = Recommend(experiences, [Req(c) EXCEPT !.limit = 1])
            /\ IF calls[c].scored = <<>> THEN calls[c].result = <<>>
               ELSE /\ Len(calls[c].result) = 1
                    /\ \A k \in 1..Len(calls[c].scored) :
                           FLeq(calls[c].scored[k].score, calls[c].result[1].score)

\* C10 witness: a call with a negative limit kept two candidates and returned
\* one.
C10_Witness ==
    \E c \in CallIds :
        /\ Returned(c)
        /\ Req(c).limit < 0
        /\ Len(calls[c].scored) >= 2
        /\ Len(calls[c].result) = 1

\* the recommendation the call has kept for the catalog position i
KeptAt(c, i) ==
    calls[c].scored[CHOOSE k \in 1..Len(calls[c].scored) : calls[c].scored[k].experience = i]

\* two experiences that differ in the duration at most (and the title)
SameButDuration(e1, e2) ==
    [e1 EXCEPT !.duration_hours = 0, !.title = ""]
        = [e2 EXCEPT !.duration_hours = 0, !.title = ""]

\* the float a is the float b minus 1.0, with no rounding error
ExactlyOneLower(a, b) == a[1] + 10 = b[1] /\ a[2] = b[2]

\* C11: with max_duration_hours set, an experience that takes longer is kept
\* whenever its score is above zero, carries the line that names its duration
\* and the ceiling, and scores exactly 1.0 below an otherwise identical
\* experience that fits (which carries the fits line).
C11_ExceedingDurationScoresOneLower ==
    \A c \in CallIds :
        (Returned(c) /\ ~IsNone(Req(c).max_duration_hours)) =>
            LET ceiling == Req(c).max_duration_hours.val
            IN  \A i \in 1..Len(experiences) :
                    experiences[i].duration_hours > ceiling =>
                        /\ (PassesCityFilter(calls[c].city_normalized, experiences[i])
                            /\ FPositive(Evaluate(Req(c), calls[c].city_normalized,
                                                  experiences[i]).score))
                               => i \in ScoredPositions(c)
                        /\ i \in ScoredPositions(c) =>
                               \E n \in 1..Len(KeptAt(c, i).rationale) :
                                   KeptAt(c, i).rationale[n] =
                                       Line("duration", <<"exceeds">>,
                                            <<experiences[i].duration_hours, ceiling>>)
                        /\ \A j \in 1..Len(experiences) :
                               (/\ SameButDuration(experiences[i], experiences[j])
                                /\ experiences[j].duration_hours <= ceiling
                                /\ i \in ScoredPositions(c)
                                /\ j \in ScoredPositions(c)) =>
                                   /\ \E n \in 1..Len(KeptAt(c, j).rationale) :
                                          KeptAt(c, j).rationale[n] =
                                              Line("duration", <<"fits">>, <<>>)
                                   /\ ExactlyOneLower(KeptAt(c, i).score, KeptAt(c, j).score)

\* the request sets the city and the budget at most
OnlyCityAndBudget(request) ==
    /\ IsNone(request.weather) /\ IsNone(request.mood)
    /\ IsNone(request.activity_type) /\ IsNone(request.max_duration_hours)

\* C12: when the request sets only city and budget, every returned experience
\* of the requested budget band comes before every returned experience of a
\* band next to it, whatever their numbers of highlights.
C12_ExactBudgetBeforeAdjacent ==
    \A c \in CallIds :
        (Returned(c) /\ OnlyCityAndBudget(Req(c)) /\ Truthy(Req(c).budget)) =>
            \A k, l \in 1..Len(calls[c].result) :
                (/\ BudgetClass(Req(c).budget.val,
                                experiences[calls[c].result[k].experience].budget) = 0
                 /\ BudgetClass(Req(c).budget.val,
                                experiences[calls[c].result[l].experience].budget) = 1)
                    => k < l

\* C12 witness: a call with city and budget only returned the exact-budget
\* candidate, which has no highlight and is second in the catalog, before the
\* candidate of the next band, which has more than three highlights.
C12_Witness ==
    \E c \in CallIds :
        /\ Returned(c)
        /\ OnlyCityAndBudget(Req(c))
        /\ Truthy(Req(c).budget) /\ TrimmedCity(Req(c)) # <<>>
        /\ Len(calls[c].result) = 2
        /\ calls[c].result[1].experience = 2
        /\ experiences[2].budget = Req(c).budget.val
        /\ experiences[2].highlights = <<>>
        /\ BudgetClass(Req(c).budget.val, experiences[1].budget) = 1
        /\ Len(experiences[1].highlights) > 3

\* C13: two calls of recommend on the same engine with equal requests return
\* equal lists (the same experiences in the same order with the same scores
\* and rationale), whatever calls were made in between.
C13_EqualRequestsEqualLists ==
    \A c, d \in CallIds :
        (Returned(c) /\ Returned(d) /\ Req(c) = Req(d)) =>
            calls[c].result = calls[d].result

\* C13 witness: two calls with the same request have both returned the same
\* list of two entries.
C13_Witness ==
    \E c, d \in CallIds :
        /\ c # d
        /\ Returned(c) /\ Returned(d)
        /\ Req(c) = Req(d)
        /\ Len(calls[c].result) = 2
        /\ calls[d].result = calls[c].result

\* C14: a call that runs concurrently with another on the shared engine
\* returns what the same call returns alone, and at every step its scored
\* list is what the loop alone has built up to that step.
C14_ConcurrentCallsAsAlone ==
    \A c \in CallIds :
        /\ calls[c].pc \in {"loop", "done"} =>
               calls[c].scored =
                   LoopFrom(Req(c), Normalize(Some(CanonicalCity(Req(c).city))),
                            SubSeq(experiences, 1, calls[c].i - 1), 1, <<>>)
        /\ Returned(c) => calls[c].result = Recommend(experiences, Req(c))

\* C14 witness: a call has returned two entries while the other call, with
\* another request, is in the middle of its loop with an entry kept.
C14_Witness ==
    \E c, d \in CallIds :
        /\ Returned(c) /\ Len(calls[c].result) = 2
        /\ calls[d].pc = "loop"
        /\ calls[d].i > 1 /\ calls[d].i <= Len(experiences)
        /\ calls[d].scored # <<>>
        /\ Req(d) # Req(c)

\* every recommendation a call holds refers to an entry of the engine's list
ReferencesCatalog ==
    \A c \in CallIds :
        /\ \A k \in 1..Len(calls[c].scored) :
               calls[c].scored[k].experience \in 1..Len(experiences)
        /\ \A k \in 1..Len(calls[c].result) :
               calls[c].result[k].experience \in 1..Len(experiences)

\* C15: once the engine is built, no step of any recommend call changes the
\* engine's list of experiences or a record in it, and every recommendation
\* refers to an entry of that list.
C15_CatalogNeverModified ==
    /\ []ReferencesCatalog
    /\ [][engine = "ready" =>
              /\ engine' = engine
              /\ experiences' = experiences
              /\ given' = given]_vars

\* C15 witness: on an engine over a caller's list, a call has returned two
\* entries in another order than the list's, and the list is as it was given.
C15_Witness ==
    \E c \in CallIds :
        /\ Returned(c)
        /\ given.kind = "list"
        /\ experiences = given.items
        /\ Len(calls[c].result) = 2
        /\ calls[c].result[1].experience > calls[c].result[2].experience

\* lines 70-124: the scored list recommend builds for a request
ScoredFor(exps, request) ==
    LoopFrom(request, Normalize(Some(CanonicalCity(request.city))), exps, 1, <<>>)

\* the requested budget is no band code and the budget of no catalog entry
UnknownBudget(request) ==
    /\ Truthy(request.budget)
    /\ \A i \in 1..Len(BUDGET_LEVELS) : BUDGET_LEVELS[i] # request.budget.val
    /\ \A i \in 1..Len(experiences) : experiences[i].budget # request.budget.val

UnknownWeather(request) ==
    /\ Truthy(request.weather)
    /\ \A i \in 1..Len(experiences) : experiences[i].weather # request.weather.val

UnknownMood(request) ==
    /\ Truthy(request.mood)
    /\ \A i \in 1..Len(experiences) : experiences[i].mood # request.mood.val

UnknownActivity(request) ==
    /\ Truthy(request.activity_type)
    /\ \A i \in 1..Len(experiences) :
           experiences[i].activity_type # request.activity_type.val

\* the requested city is no alias key and part of no catalog entry's city
UnknownCity(request) ==
    /\ TrimmedCity(request) # <<>>
    /\ ~IsAliasKey(Lower(TrimmedCity(request)))
    /\ \A i \in 1..Len(experiences) :
           ~Contains(Lower(TrimmedCity(request)), CatalogCity(i))

\* C16: a call whose city, budget, weather, mood or activity type matches no
\* alias, band code or catalog label returns a list: an unknown budget,
\* weather, mood or activity type scores and explains every candidate as the
\* request without that field does, and an unknown city leaves no candidate.
C16_UnrecognizedDegradesGracefully ==
    \A c \in CallIds :
        Returned(c) =>
            /\ UnknownBudget(Req(c)) =>
                   /\ calls[c].scored = ScoredFor(experiences, [Req(c) EXCEPT !.budget = None])
                   /\ calls[c].result = Recommend(experiences, [Req(c) EXCEPT !.budget = None])
            /\ UnknownWeather(Req(c)) =>
                   /\ calls[c].scored = ScoredFor(experiences, [Req(c) EXCEPT !.weather = None])
                   /\ calls[c].result = Recommend(experiences, [Req(c) EXCEPT !.weather = None])
            /\ UnknownMood(Req(c)) =>
                   /\ calls[c].scored = ScoredFor(experiences, [Req(c) EXCEPT !.mood = None])
                   /\ calls[c].result = Recommend(experiences, [Req(c) EXCEPT !.mood = None])
            /\ UnknownActivity(Req(c)) =>
                   /\ calls[c].scored =
                          ScoredFor(experiences, [Req(c) EXCEPT !.activity_type = None])
                   /\ calls[c].result =
                          Recommend(experiences, [Req(c) EXCEPT !.activity_type = None])
            /\ UnknownCity(Req(c)) => (calls[c].scored = <<>> /\ calls[c].result = <<>>)

\* C16 witness: a call whose budget, weather, mood and activity type are all
\* unknown has returned two entries of the requested city.
C16_Witness ==
    \E c \in CallIds :
        /\ Returned(c)
        /\ UnknownBudget(Req(c)) /\ UnknownWeather(Req(c))
        /\ UnknownMood(Req(c)) /\ UnknownActivity(Req(c))
        /\ TrimmedCity(Req(c)) # <<>>
        /\ Len(calls[c].result) = 2

\* C16, the city: a call whose city is unknown has returned the empty list
\* from a catalog that a call without a city returns entries from.
C16_UnknownCityWitness ==
    \E c \in CallIds :
        /\ Returned(c)
        /\ UnknownCity(Req(c))
        /\ calls[c].result = <<>>
        /\ Recommend(experiences, [Req(c) EXCEPT !.city = None]) # <<>>


\* a collaborator has called recommend for caller c and rendered what came back
Rendered(c) == shown[c].via # "none" /\ calls[c].pc = "done"

\* C17: when recommend returns an empty list, each collaborator (cli main in
\* every output format, web index on GET and POST) renders the friendly
\* "loosen your criteria" message and completes with a success status
C17_EmptyResultFriendlyMessage ==
    \A c \in CallIds :
        Rendered(c) /\ calls[c].result = <<>> =>
            /\ shown[c].message = "no_match"
            /\ shown[c].status = (IF shown[c].via = "cli" THEN 0 ELSE 200)

\* C18: every request a collaborator passes to the engine carries a limit
\* within 1..10, whatever limit the user supplied
C18_CollaboratorLimitClamped ==
    \A c \in CallIds :
        Rendered(c) => calls[c].request.val.limit \in 1..10


\* 0.2 as a binary64
F02 == <<2, 8>>

\* the bonus for n highlights: 0.1 each up to three, 0.3 from there on
BonusFor(n) ==
    IF n = 0 THEN F0
    ELSE IF n = 1 THEN F01
    ELSE IF n = 2 THEN F02
    ELSE F03

\* the terms of a score, each from its own field of the request and of the
\* experience (0.0 where the term is absent)
CityTerm(city_normalized) == IF city_normalized # <<>> THEN F20 ELSE F0

BudgetTerm(request, exp) ==
    IF IsNone(request.budget) \/ request.budget.val = "" THEN F0
    ELSE BudgetAffinity(request.budget.val, exp.budget).score

WeatherTerm(request, exp) ==
    IF ~IsNone(request.weather) /\ request.weather.val = exp.weather THEN F10 ELSE F0

MoodTerm(request, exp) ==
    IF ~IsNone(request.mood) /\ request.mood.val = exp.mood THEN F10 ELSE F0

ActivityTerm(request, exp) ==
    IF ~IsNone(request.activity_type) /\ request.activity_type.val = exp.activity_type
    THEN F05 ELSE F0

DurationTerm(request, exp) ==
    IF IsNone(request.max_duration_hours) THEN F0
    ELSE IF exp.duration_hours <= request.max_duration_hours.val THEN F05
    ELSE FNeg(F05)

\* the terms before the bonus, added in the order city, budget, weather, mood,
\* activity type, duration (binary64 additions)
TermsBeforeBonus(city_normalized, request, exp) ==
    FAdd(FAdd(FAdd(FAdd(FAdd(FAdd(F0, CityTerm(city_normalized)),
                                  BudgetTerm(request, exp)),
                             WeatherTerm(request, exp)),
                        MoodTerm(request, exp)),
                   ActivityTerm(request, exp)),
         DurationTerm(request, exp))

\* a request with no criterion at all
NoCriteria(request) ==
    /\ IsNone(request.city) /\ IsNone(request.budget) /\ IsNone(request.weather)
    /\ IsNone(request.mood) /\ IsNone(request.activity_type)
    /\ IsNone(request.max_duration_hours)

\* two experiences that differ in the highlights at most (and the title)
SameButHighlights(e1, e2) ==
    [e1 EXCEPT !.highlights = <<>>, !.title = ""]
        = [e2 EXCEPT !.highlights = <<>>, !.title = ""]

\* C19: the highlight bonus added to a candidate's score is 0.1 per highlight
\* for 0 to 3 highlights and 0.3 for every larger count, whatever the request:
\* a kept candidate scores its other terms plus that bonus (the bonus alone
\* under a request with no criteria), and of two candidates that differ in
\* their highlights only the one with more highlights never scores less, and
\* scores the same from three highlights on.
C19_HighlightBonusCapped ==
    \A c \in CallIds :
        Returned(c) =>
            \A k \in 1..Len(calls[c].scored) :
                LET rec == calls[c].scored[k]
                    exp == experiences[rec.experience]
                IN  /\ rec.score =
                           FAdd(TermsBeforeBonus(calls[c].city_normalized, Req(c), exp),
                                BonusFor(Len(exp.highlights)))
                    /\ NoCriteria(Req(c)) =>
                           /\ rec.score = BonusFor(Len(exp.highlights))
                           /\ FLeq(rec.score, F03)
                    /\ \A j \in 1..Len(calls[c].scored) :
                           LET other == calls[c].scored[j]
                               oexp == experiences[other.experience]
                           IN  (/\ SameButHighlights(exp, oexp)
                                /\ Len(exp.highlights) <= Len(oexp.highlights)) =>
                                   /\ FLeq(rec.score, other.score)
                                   /\ Len(exp.highlights) >= 3 => rec.score = other.score

\* a call with criteria has kept two candidates that differ in their highlights
\* only, three against more than three, with equal scores
C19_Witness ==
    \E c \in CallIds :
        /\ Returned(c)
        /\ ~NoCriteria(Req(c))
        /\ \E k, j \in 1..Len(calls[c].scored) :
               LET exp == experiences[calls[c].scored[k].experience]
                   oexp == experiences[calls[c].scored[j].experience]
               IN  /\ SameButHighlights(exp, oexp)
                   /\ Len(exp.highlights) = 3
                   /\ Len(oexp.highlights) > 3
                   /\ calls[c].scored[k].score = calls[c].scored[j].score

\* C20: the score of every scored candidate is the sum of independent terms:
\* +2.0 iff a non-empty city filter was applied, the budget affinity iff the
\* request has a budget, +1.0 iff the weather is equal, +1.0 iff the mood is
\* equal, +0.5 iff the activity type is equal, +0.5 or -0.5 iff
\* max_duration_hours is set (fits / exceeds), plus min(0.1 x highlights, 0.3);
\* each term is decided by its own fields alone.  A candidate that passed the
\* filter is kept exactly when that sum is above zero.
C20_ScoreIsSumOfTerms ==
    \A c \in CallIds :
        Returned(c) =>
            \A i \in 1..Len(experiences) :
                LET total == FAdd(TermsBeforeBonus(calls[c].city_normalized, Req(c),
                                                   experiences[i]),
                                  BonusFor(Len(experiences[i].highlights)))
                IN  IF i \in ScoredPositions(c)
                    THEN KeptAt(c, i).score = total
                    ELSE \/ ~PassesCityFilter(calls[c].city_normalized, experiences[i])
                         \/ ~FPositive(total)

\* a kept candidate whose score has the city, a budget penalty, the mood and
\* the over-duration penalty in it, but neither weather nor activity type
C20_Witness ==
    \E c \in CallIds :
        /\ Returned(c)
        /\ \E i \in ScoredPositions(c) :
               /\ CityTerm(calls[c].city_normalized) = F20
               /\ FLess(BudgetTerm(Req(c), experiences[i]), F0)
               /\ WeatherTerm(Req(c), experiences[i]) = F0
               /\ ~IsNone(Req(c).weather)
               /\ MoodTerm(Req(c), experiences[i]) = F10
               /\ ActivityTerm(Req(c), experiences[i]) = F0
               /\ DurationTerm(Req(c), experiences[i]) = FNeg(F05)


\* the code is one of the band sequence
InBands(code) == \E i \in 1..Len(BUDGET_LEVELS) : BUDGET_LEVELS[i] = code

\* its place in the sequence
BandPlace(code) == CHOOSE i \in 1..Len(BUDGET_LEVELS) : BUDGET_LEVELS[i] = code

\* the relation of the candidate's code to the requested one
BudgetRelation(requested, candidate) ==
    IF requested = candidate THEN "exact"
    ELSE IF ~InBands(requested) \/ ~InBands(candidate) THEN "unrelated"
    ELSE IF BandPlace(candidate) = BandPlace(requested) + 1
            \/ BandPlace(requested) = BandPlace(candidate) + 1 THEN "adjacent"
    ELSE IF BandPlace(candidate) > BandPlace(requested) THEN "pricier"
    ELSE "cheaper"

\* 0.4 as a binary64
F04 == <<4, 16>>

\* the affinity the relation stands for: 1.0, 0.6, -0.4, -0.2 or 0.0
AffinityOf(relation) ==
    IF relation = "exact" THEN <<10, 0>>
    ELSE IF relation = "adjacent" THEN <<6, -16>>
    ELSE IF relation = "pricier" THEN FNeg(F04)
    ELSE IF relation = "cheaper" THEN FNeg(F02)
    ELSE <<0, 0>>

\* the lines of a kind in a rationale
LinesOf(kind, rationale) == {k \in 1..Len(rationale) : rationale[k].kind = kind}

\* C21: for a request that names a budget, the affinity of (requested,
\* candidate) is +1.0 for equal codes; otherwise, with both codes in the band
\* sequence, +0.6 at gap 1 and at any gap >= 2 exactly -0.4 for a pricier
\* candidate and -0.2 for a cheaper one; otherwise 0.0 with no rationale
\* line.  The candidate is kept exactly when city term + affinity + bonus
\* is above zero, with that score, and with one budget line unless the codes
\* are unrelated.
C21_BudgetAffinityByRelation ==
    \A c \in CallIds :
        (Returned(c) /\ Truthy(Req(c).budget)) =>
            \A i \in 1..Len(experiences) :
                LET relation == BudgetRelation(Req(c).budget.val, experiences[i].budget)
                    total == FAdd(FAdd(CityTerm(calls[c].city_normalized),
                                       AffinityOf(relation)),
                                  BonusFor(Len(experiences[i].highlights)))
                IN  IF FPositive(total)
                    THEN /\ i \in ScoredPositions(c)
                         /\ KeptAt(c, i).score = total
                         /\ Cardinality(LinesOf("budget", KeptAt(c, i).rationale))
                                = (IF relation = "unrelated" THEN 0 ELSE 1)
                    ELSE i \notin ScoredPositions(c)

\* a kept candidate four bands pricier than requested, and the penalty in its
\* score
C21_Witness ==
    \E c \in CallIds :
        /\ Returned(c)
        /\ Truthy(Req(c).budget)
        /\ \E i \in ScoredPositions(c) :
               /\ InBands(Req(c).budget.val) /\ InBands(experiences[i].budget)
               /\ BandPlace(experiences[i].budget) = BandPlace(Req(c).budget.val) + 4
               /\ KeptAt(c, i).score = FAdd(FAdd(F20, FNeg(F04)), F03)


\* the signal of a kind has changed the score of exp under the request
ChangesScore(kind, city_normalized, request, exp) ==
    IF kind = "city" THEN CityTerm(city_normalized) # F0
    ELSE IF kind = "budget" THEN BudgetTerm(request, exp) # F0
    ELSE IF kind = "weather" THEN WeatherTerm(request, exp) # F0
    ELSE IF kind = "mood" THEN MoodTerm(request, exp) # F0
    ELSE IF kind = "activity" THEN ActivityTerm(request, exp) # F0
    ELSE IF kind = "duration" THEN DurationTerm(request, exp) # F0
    ELSE BonusFor(Len(exp.highlights)) # F0

\* the signals that write rationale lines
LineSignals == {"city", "budget", "weather", "mood", "activity", "duration"}

\* C22: every signal that is evaluated for a candidate and changes its score
\* (city, budget, weather, mood, activity type, duration, highlight bonus)
\* has appended a line to the candidate's rationale
C22_ScoreChangeHasLine ==
    \A c \in CallIds :
        Returned(c) =>
            \A k \in 1..Len(calls[c].scored) :
                \A kind \in LineSignals \cup {"highlights"} :
                    ChangesScore(kind, calls[c].city_normalized, Req(c),
                                 experiences[calls[c].scored[k].experience]) =>
                        LinesOf(kind, calls[c].scored[k].rationale) # {}


\* the place of a signal in the evaluation order
SignalRank(kind) ==
    IF kind = "city" THEN 1
    ELSE IF kind = "budget" THEN 2
    ELSE IF kind = "weather" THEN 3
    ELSE IF kind = "mood" THEN 4
    ELSE IF kind = "activity" THEN 5
    ELSE IF kind = "duration" THEN 6
    ELSE 0

\* the lines of the signals in a rationale, in evaluation order, no signal twice
InEvaluationOrder(rationale) ==
    \A k, j \in 1..Len(rationale) :
        (k < j /\ rationale[k].kind \in LineSignals /\ rationale[j].kind \in LineSignals) =>
            SignalRank(rationale[k].kind) < SignalRank(rationale[j].kind)

\* what a budget line must say for the relation of the codes
BudgetLineSays(line, requested, candidate) ==
    LET relation == BudgetRelation(requested, candidate)
        pricier == BandPlace(candidate) > BandPlace(requested)
    IN  IF relation = "exact" THEN line.text = <<"exact", candidate>>
        ELSE IF relation = "adjacent"
        THEN line.text = <<"near", requested, candidate,
                           IF pricier THEN "a little pricier" ELSE "a little cheaper">>
        ELSE line.text = <<"mismatch", requested,
                           IF pricier THEN "far pricier" ELSE "far cheaper">>

\* C23: the rationale of a returned Recommendation lists its lines in the
\* evaluation order city, budget, weather, mood, activity type, duration, at
\* most one per signal; in the exact, adjacent and gap >= 2 branches the
\* budget signal has written exactly one line, which names the relation and,
\* for adjacent and penalty, the direction (pricier or cheaper)
C23_RationaleInEvaluationOrder ==
    \A c \in CallIds :
        Returned(c) =>
            \A k \in 1..Len(calls[c].result) :
                LET rec == calls[c].result[k]
                    exp == experiences[rec.experience]
                    lines == LinesOf("budget", rec.rationale)
                IN  /\ InEvaluationOrder(rec.rationale)
                    /\ (/\ Truthy(Req(c).budget)
                        /\ BudgetRelation(Req(c).budget.val, exp.budget) # "unrelated") =>
                           /\ Cardinality(lines) = 1
                           /\ \A b \in lines :
                                  BudgetLineSays(rec.rationale[b], Req(c).budget.val,
                                                 exp.budget)

\* a returned rationale with the six lines, the budget one for an adjacent
\* cheaper band, beside one in the same list for a band two places cheaper
C23_Witness ==
    \E c \in CallIds :
        /\ Returned(c)
        /\ Len(calls[c].result) = 2
        /\ Len(calls[c].result[1].rationale) = 6
        /\ \E b \in 1..6 :
               /\ calls[c].result[1].rationale[b].kind = "budget"
               /\ Len(calls[c].result[1].rationale[b].text) = 4
               /\ calls[c].result[1].rationale[b].text[4] = "a little cheaper"
        /\ \E b \in 1..Len(calls[c].result[2].rationale) :
               /\ calls[c].result[2].rationale[b].kind = "budget"
               /\ Len(calls[c].result[2].rationale[b].text) = 3
               /\ calls[c].result[2].rationale[b].text[3] = "far cheaper"


\* the generic fallback string of line 122
FallbackLine == Line("fallback", <<"broadly suitable plan">>, <<>>)

\* a signal of LineSignals has appended a line for exp under the request: the
\* city filter is on, the budget codes are related, the weather, the mood or
\* the activity type is the requested one, or a ceiling is set
SomeSignalAppended(city_normalized, request, exp) ==
    \/ city_normalized # <<>>
    \/ /\ ~IsNone(request.budget) /\ request.budget.val # ""
       /\ BudgetRelation(request.budget.val, exp.budget) # "unrelated"
    \/ ~IsNone(request.weather) /\ request.weather.val = exp.weather
    \/ ~IsNone(request.mood) /\ request.mood.val = exp.mood
    \/ ~IsNone(request.activity_type) /\ request.activity_type.val = exp.activity_type
    \/ ~IsNone(request.max_duration_hours)

\* C24: a returned Recommendation carries the single generic fallback string
\* exactly when no city, budget, weather, mood, activity or duration signal
\* appended a line for it; in every other case its rationale consists of
\* signal lines only and never contains the fallback
C24_FallbackOnlyWithoutLines ==
    \A c \in CallIds :
        Returned(c) =>
            \A k \in 1..Len(calls[c].result) :
                LET rec == calls[c].result[k]
                    exp == experiences[rec.experience]
                IN  IF SomeSignalAppended(calls[c].city_normalized, Req(c), exp)
                    THEN \A j \in 1..Len(rec.rationale) :
                             rec.rationale[j].kind \in LineSignals
                    ELSE rec.rationale = <<FallbackLine>>

\* a request that names an unknown budget and a weather the candidate has
\* not returns it with the fallback alone, its score the highlight bonus
C24_Witness ==
    \E c \in CallIds :
        /\ Returned(c)
        /\ ~IsNone(Req(c).budget) /\ ~IsNone(Req(c).weather)
        /\ \E k \in 1..Len(calls[c].result) :
               /\ calls[c].result[k].rationale = <<FallbackLine>>
               /\ calls[c].result[k].score = F03

\* a returned rationale of signal lines only, beside the witness above
C24_SignalLinesWitness ==
    \E c \in CallIds :
        /\ Returned(c)
        /\ \E k \in 1..Len(calls[c].result) :
               /\ Len(calls[c].result[k].rationale) >= 2
               /\ \A j \in 1..Len(calls[c].result[k].rationale) :
                      calls[c].result[k].rationale[j].kind \in LineSignals


\* the built catalog is the raw records in their order, each with the detail
\* the mapping has for its title (None where it has none) and every other
\* field as in the raw record
CatalogJoined ==
    /\ Len(data.EXPERIENCES) = Len(data.RAW_EXPERIENCES)
    /\ \A i \in 1..Len(data.RAW_EXPERIENCES) :
           LET raw == data.RAW_EXPERIENCES[i]
               exp == data.EXPERIENCES[i]
           IN  /\ DOMAIN exp = DOMAIN raw
               /\ exp.detail = (IF raw.title \in DOMAIN data.EXPERIENCE_DETAILS
                                THEN Some(data.EXPERIENCE_DETAILS[raw.title])
                                ELSE None)
               /\ \A f \in DOMAIN raw \ {"detail"} : exp[f] = raw[f]

\* C25: after the catalog build every experience of EXPERIENCES has the
\* detail of the mapping entry for its title when one exists and None when
\* none exists, every other field and the order as in the raw records; the
\* join is done once, at build: recommend (and anything after the import)
\* leaves the module's tuples as they are, and the engine's list and what it
\* returns are those entries
C25_DetailJoinedOnceAtBuild ==
    /\ [](data.imported =>
            /\ CatalogJoined
            /\ engine = "ready" => experiences = data.EXPERIENCES
            /\ \A c \in CallIds : \A k \in 1..Len(calls[c].result) :
                   calls[c].result[k].experience \in 1..Len(data.EXPERIENCES))
    /\ [][data.imported => data' = data]_vars

\* recommend has returned two entries of a catalog in which the build has
\* taken a raw record's own detail away and given the other the mapping's
C25_Witness ==
    /\ data.imported
    /\ Len(data.EXPERIENCES) = 2
    /\ \E i, j \in 1..2 :
           /\ ~IsNone(data.RAW_EXPERIENCES[i].detail)
           /\ IsNone(data.EXPERIENCES[i].detail)
           /\ ~IsNone(data.EXPERIENCES[j].detail)
           /\ data.EXPERIENCES[j].detail # data.RAW_EXPERIENCES[j].detail
    /\ \E c \in CallIds : Returned(c) /\ Len(calls[c].result) = 2


\* what the form parser is to make of the limit texts the forms carry
ExpectedFormLimit(limit_raw) ==
    IF limit_raw = None THEN 3
    ELSE IF limit_raw = Some(<<>>) THEN 3
    ELSE IF limit_raw = Some(<<"a", "b", "c">>) THEN 3
    ELSE IF limit_raw = Some(<<"-", "1">>) THEN 1
    ELSE IF limit_raw = Some(<<"0">>) THEN 1
    ELSE IF limit_raw = Some(<<"1">>) THEN 1
    ELSE IF limit_raw = Some(<<" ", "5", " ">>) THEN 5
    ELSE 10

\* what it is to make of the max_duration_hours texts
ExpectedFormMaxHours(max_hours_raw) ==
    IF max_hours_raw = Some(<<"-", "1">>) THEN Some(0 - 1)
    ELSE IF max_hours_raw = Some(<<"0">>) THEN Some(0)
    ELSE IF max_hours_raw = Some(<<"2">>) THEN Some(2)
    ELSE None

\* C26: the web form parser never raises on malformed numeric input: every
\* request the index handler serves is answered with status 200; a missing,
\* empty or non-numeric limit yields 3 and a numeric one is clamped to 1..10;
\* a missing, empty or non-numeric max_duration_hours yields None; the engine
\* receives an integer limit and an integer or None for the ceiling
C26_FormParserTotal ==
    \A c \in CallIds :
        shown[c].via = "web" =>
            /\ shown[c].status = 200
            /\ Rendered(c) =>
                   /\ Req(c).limit = ExpectedFormLimit(shown[c].received.mapping.limit)
                   /\ Req(c).limit \in 1..10
                   /\ Req(c).max_duration_hours =
                          ExpectedFormMaxHours(shown[c].received.mapping.max_duration_hours)
                   /\ \/ IsNone(Req(c).max_duration_hours)
                      \/ Req(c).max_duration_hours.val \in Int

\* the handler has called the engine for a form whose limit and ceiling are
\* both the text "abc"
C26_Witness ==
    \E c \in CallIds :
        /\ shown[c].via = "web"
        /\ Rendered(c)
        /\ shown[c].received.mapping.limit = Some(<<"a", "b", "c">>)
        /\ shown[c].received.mapping.max_duration_hours = Some(<<"a", "b", "c">>)
        /\ Req(c).limit = 3
        /\ IsNone(Req(c).max_duration_hours)


\* the ceiling the handler of caller c was given, as a text
CeilingText(c) ==
    IF shown[c].via = "web" THEN shown[c].received.mapping.max_duration_hours
    ELSE shown[c].received.max_duration_hours

\* C29: a max_duration_hours of 0 or a negative number is a ceiling, not an
\* absent one: every scored experience (its duration is 1 or more) has the
\* -0.5 of an over-long plan in its score and the line naming its duration
\* and the ceiling; and the web form parser hands such a value (the text "0",
\* "-1") to the engine as the number it is
C29_ZeroCeilingIsACeiling ==
    \A c \in CallIds :
        Rendered(c) =>
            /\ (shown[c].via = "web" /\ CeilingText(c) = Some(<<"0">>)) =>
                   Req(c).max_duration_hours = Some(0)
            /\ (shown[c].via = "web" /\ CeilingText(c) = Some(<<"-", "1">>)) =>
                   Req(c).max_duration_hours = Some(0 - 1)
            /\ (~IsNone(Req(c).max_duration_hours) /\ Req(c).max_duration_hours.val <= 0) =>
                   \A k \in 1..Len(calls[c].scored) :
                       LET rec == calls[c].scored[k]
                           exp == experiences[rec.experience]
                           others == TermsBeforeBonus(calls[c].city_normalized,
                                         [Req(c) EXCEPT !.max_duration_hours = None], exp)
                       IN  /\ rec.score = FAdd(FAdd(others, FNeg(F05)),
                                               BonusFor(Len(exp.highlights)))
                           /\ \E j \in 1..Len(rec.rationale) :
                                  rec.rationale[j] =
                                      Line("duration", <<"exceeds">>,
                                           <<exp.duration_hours,
                                             Req(c).max_duration_hours.val>>)

\* the web handler was given the text "0" and the engine has kept candidates
C29_Witness ==
    \E c \in CallIds :
        /\ Rendered(c)
        /\ shown[c].via = "web"
        /\ CeilingText(c) = Some(<<"0">>)
        /\ Req(c).max_duration_hours = Some(0)
        /\ Len(calls[c].scored) >= 2


\* the city text of a form, trimmed ("" for a missing one)
TrimmedFormCity(mapping) ==
    IF IsNone(mapping.city) THEN <<>> ELSE Strip(mapping.city.val)

\* the handler parses the form: a POST, or a GET with some query parameter
FormIsParsed(received) ==
    \/ received.method = "POST"
    \/ \E key \in DOMAIN received.mapping : ~IsNone(received.mapping[key])

C30_CliWitness ==
    \E c \in CallIds :
        /\ shown[c].via = "cli"
        /\ ArgsAccepted(shown[c].received)
        /\ IsNone(shown[c].received.city)
        /\ ~shown[c].received.list_budgets
        /\ shown[c].view = "usage"


\* the catalog positions whose normalized city contains the call's
\* normalized city
CityMatches(c) ==
    {i \in 1..Len(experiences) :
        Contains(calls[c].city_normalized, CatalogCity(i))}

\* C27: for a request whose city is not empty once normalized, no experience
\* that passes the city filter is dropped by the score test (2.0 outweighs
\* -0.4 and -0.5 together), and the result is the first max(1, limit) of the
\* city-matching experiences in score order; a candidate that passed the
\* filter is lost to the score test under a city-less request only.
C27_CityMatchesSurviveScoreTest ==
    \A c \in CallIds :
        (Returned(c) /\ calls[c].city_normalized # <<>>) =>
            LET result == calls[c].result
                returned == {result[k].experience : k \in 1..Len(result)}
            IN  /\ ScoredPositions(c) = CityMatches(c)
                /\ Len(result) =
                       Min2(Cardinality(CityMatches(c)), Max2(1, Req(c).limit))
                /\ Cardinality(returned) = Len(result)
                /\ returned \subseteq CityMatches(c)
                /\ \A k, l \in 1..Len(result) :
                       k < l => FLeq(result[l].score, result[k].score)
                /\ \A i \in CityMatches(c) \ returned :
                       \A k \in 1..Len(result) :
                           FLeq(KeptAt(c, i).score, result[k].score)

\* C27 witness: under a request with a city, a candidate with both penalties
\* and no highlight is kept with 2.0 - 0.4 - 0.5 as its score, and the limit
\* has cut the list of the city's candidates.
C27_Witness ==
    \E c \in CallIds :
        /\ Returned(c)
        /\ calls[c].city_normalized # <<>>
        /\ \E k \in 1..Len(calls[c].scored) :
               calls[c].scored[k].score = FAdd(FAdd(<<20, 0>>, <<-4, -16>>), <<-5, 0>>)
        /\ Len(calls[c].result) < Cardinality(CityMatches(c))
        /\ Len(calls[c].result) >= 2

\* C27, the other case: under a city-less request a candidate is lost to the
\* score test.
C27_CitylessLosesWitness ==
    \E c \in CallIds :
        /\ Returned(c)
        /\ calls[c].city_normalized = <<>>
        /\ Len(calls[c].scored) < Len(experiences)

\* s is the start of t
IsPrefix(s, t) == Len(s) <= Len(t) /\ s = SubSeq(t, 1, Len(s))

\* C28: the list returned for a limit k >= 1 is a prefix of the list the same
\* engine returns for the request with limit k + 1 and every other field
\* equal.
C28_PrefixMonotoneInLimit ==
    \A c \in CallIds :
        (Returned(c) /\ Req(c).limit >= 1) =>
            IsPrefix(calls[c].result,
                     Recommend(experiences, [Req(c) EXCEPT !.limit = @ + 1]))

\* C28 witness: a call with limit 2 returned two entries of three that
\* score above zero, so the list for limit 3 is longer.
C28_Witness ==
    \E c \in CallIds :
        /\ Returned(c)
        /\ Req(c).limit = 2
        /\ Len(calls[c].result) = 2
        /\ Len(calls[c].scored) = 3
        /\ Len(Recommend(experiences, [Req(c) EXCEPT !.limit = 3])) = 3

====
